---- MODULE Spec2Model ----
(***************************************************************************)
(* Model of the project-lifecycle manager (package manager/): the manifest *)
(* ledger (manifest.py), the init, deploy and clean workflows (init.py,    *)
(* deploy.py, clean.py), the service-account manager                       *)
(* (service_account_manager.py) and the command dispatch of __main__.py.   *)
(*                                                                         *)
(* One process invocation is a walk of pc from "idle" through the steps of *)
(* one command to "done".  Every external command (subprocess.run) is one  *)
(* step whose outcome is chosen among "ok" (exit 0), "fail" (non-zero      *)
(* exit) and "notfound" (the executable is missing: FileNotFoundError).    *)
(***************************************************************************)
EXTENDS Integers, Sequences, FiniteSets, TLC

(* ------------------------------ bounds -------------------------------- *)

\* process invocations per behaviour (Spec)
MaxRuns == 2
\* direct ledger API calls per behaviour (LedgerSpec)
MaxCalls == 5

(* --------------------------- text handling ---------------------------- *)
\* Operator input is a sequence of one-character strings, so that
\* str.lower() and str.strip() are computed, not assumed.

LowerChar(c) ==
    CASE c = "A" -> "a" [] c = "E" -> "e" [] c = "N" -> "n" [] c = "O" -> "o"
      [] c = "P" -> "p" [] c = "Q" -> "q" [] c = "S" -> "s" [] c = "X" -> "x"
      [] c = "Y" -> "y" [] OTHER -> c

Lower(s) == [i \in 1..Len(s) |-> LowerChar(s[i])]

IsSpace(c) == c = " "

RECURSIVE LStrip(_)
LStrip(s) == IF s # <<>> /\ IsSpace(Head(s)) THEN LStrip(Tail(s)) ELSE s

RECURSIVE RStrip(_)
RStrip(s) ==
    IF s # <<>> /\ IsSpace(s[Len(s)]) THEN RStrip(SubSeq(s, 1, Len(s) - 1)) ELSE s

Strip(s) == RStrip(LStrip(s))

(* ------------------------- project descriptor ------------------------- *)

\* name of the working directory
DirName == <<"A", "p", "p">>
\* ProjectConfig._get_project_name, as typed text and as the stored string
project_name_text == Lower(DirName)
project_name == "app"
gcp_project_id == "marketing-innovation-450013"
default_region == "europe-west4"
service_account_email == "app-sa@marketing-innovation-450013.iam.gserviceaccount.com"
service_account_name == "APP_SA"
image_url == "gcr.io/marketing-innovation-450013/app"

\* ProjectConfig.get_region / "region or default": None and "" are both falsy
get_region(r) == IF r = "" THEN default_region ELSE r

(* ------------------------------- ledger ------------------------------- *)

Flags == {"initialized", "deployed", "docker_built", "service_account_created",
          "github_secrets_configured"}

EmptyMap == [k \in {} |-> FALSE]

\* no file at manager/.manifest
NoManifest ==
    [exists |-> FALSE, text |-> "none", created_at |-> 0, operations |-> <<>>,
     state |-> EmptyMap, config |-> EmptyMap]

\* the file after open(path, 'w') truncated it and json.dump wrote nothing
\* ("empty") or only a part ("partial") of the data: json.load cannot read it
Torn(kind) ==
    [exists |-> TRUE, text |-> kind, created_at |-> 0, operations |-> <<>>,
     state |-> EmptyMap, config |-> EmptyMap]

\* json.load succeeds on the file
Parseable(m) == m.exists /\ m.text = "whole"

\* ManifestManager._ensure_manifest_exists: the data written when the file is absent
initial_data(t) ==
    [exists |-> TRUE, text |-> "whole", created_at |-> t, operations |-> <<>>,
     state |-> [k \in Flags |-> FALSE], config |-> EmptyMap]

\* variant: the initial data is written whether or not the file exists
ensure_manifest_always(m, t) == initial_data(t)

\* ManifestManager._ensure_manifest_exists
ensure_manifest_exists(m, t) == IF m.exists THEN m ELSE initial_data(t)

MapSet(f, key, v) == [k \in (DOMAIN f) \cup {key} |-> IF k = key THEN v ELSE f[k]]

operation_entry(t, operation, details) ==
    [timestamp |-> t, operation |-> operation, details |-> details]

\* variant: the new record is put first
log_operation_prepend(m, t, operation, details) ==
    [m EXCEPT !.operations = <<operation_entry(t, operation, details)>> \o @]

log_operation(m, t, operation, details) ==
    [m EXCEPT !.operations = Append(@, operation_entry(t, operation, details))]

\* variant: the state section is rebuilt with the one key
update_state_alone(m, key, value) == [m EXCEPT !.state = [k \in {key} |-> value]]

update_state(m, key, value) == [m EXCEPT !.state = MapSet(@, key, value)]

update_config(m, key, value) == [m EXCEPT !.config = MapSet(@, key, value)]

\* dict.get(key): None when the key is absent; every caller only tests the
\* value's truth, and None is falsy like False
get_state(m, key) == IF key \in DOMAIN m.state THEN m.state[key] ELSE FALSE
get_config(m, key, default) == IF key \in DOMAIN m.config THEN m.config[key] ELSE default

\* variant: the reset clears operations and config but keeps the state flags
reset_manifest_keep(m, t) == [m EXCEPT !.operations = <<>>, !.config = EmptyMap]

\* os.remove, then _ensure_manifest_exists on the now absent file
reset_manifest(m, t) == ensure_manifest_exists(NoManifest, t)

\* the canonical empty shape: no operations, the five flags false, no config
Canonical(m) ==
    /\ m.exists
    /\ m.operations = <<>>
    /\ DOMAIN m.state = Flags
    /\ \A k \in Flags : m.state[k] = FALSE
    /\ DOMAIN m.config = {}

(* ------------------------------- state -------------------------------- *)

VARIABLES
    manifest,   \* the ledger file manager/.manifest
    now,        \* the clock read by datetime.now()
    fs,         \* local files the workflows read and write
    pc,         \* position of the running process ("idle": none runs)
    cmd,        \* the command line of the running process
    input,      \* the line the operator typed at the pending prompt
    effects,    \* external commands and local file changes of this run
    stepLog,    \* workflow steps started in this run, with how each returned
    m0,         \* the ledger when the handler of this run started
    snap,       \* the ledger when the current workflow step started
    result,     \* the exit status of this run
    runs,       \* processes started so far
    role_i,     \* loop index of add_permissions / remove_permissions
    api         \* direct use of ManifestManager (LedgerSpec)

vars == <<manifest, now, fs, pc, cmd, input, effects, stepLog, m0, snap, result,
          runs, role_i, api>>

NoInput == <<"<none>">>
NoEffects == [log |-> <<>>, last |-> "none"]
NoCmd ==
    [name |-> "none", action |-> "", region |-> "", skip_local |-> FALSE,
     skip_frontend_build |-> FALSE, roles |-> <<>>, key |-> "", value |-> ""]
NoResult == -1

\* a checkout of the template
FreshTree(cicd) ==
    [tree |-> "present", cicd |-> cicd, env |-> FALSE, pyproject |-> "template",
     makefile |-> "template", package_json |-> FALSE, key_file |-> FALSE]

\* a call of a ManifestManager mutator, and what a client holds between the
\* _read_manifest and the _write_manifest of its call
NoCall == [name |-> "none", key |-> "", flag |-> FALSE, text |-> ""]
NotCalling == [call |-> NoCall, data |-> NoManifest]
Clients == {1, 2}

NoApi ==
    [n |-> 0, last |-> "none", prev |-> NoManifest, logged |-> <<>>,
     held |-> [c \in Clients |-> NotCalling], overlap |-> FALSE]

(* --------------------- ManifestManager used directly ------------------- *)
\* LedgerSpec: a client constructs ManifestManager and calls its mutators in
\* any order.

ApiOperations == {"init", "cleanup"}
ApiDetails == {[type |-> "local"], EmptyMap}
ApiStateKeys == {"initialized", "deployed", "custom"}
ApiConfigKeys == {"region"}
ApiConfigValues == {"us-east1", "europe-west4"}

ApiCalled(name, m, logged) ==
    /\ api.n < MaxCalls
    /\ manifest' = m
    /\ api' = [api EXCEPT !.n = @ + 1, !.last = name, !.prev = manifest,
                          !.logged = logged]
    /\ now' = now + 1
    /\ UNCHANGED <<fs, pc, cmd, input, effects, stepLog, m0, snap, result, runs,
                   role_i>>

ApiLogOperation ==
    \E op \in ApiOperations, d \in ApiDetails :
        ApiCalled("log_operation", log_operation(manifest, now, op, d),
                  Append(api.logged, [operation |-> op, details |-> d]))

ApiUpdateState ==
    \E k \in ApiStateKeys, v \in BOOLEAN :
        ApiCalled("update_state", update_state(manifest, k, v), api.logged)

ApiUpdateConfig ==
    \E k \in ApiConfigKeys, v \in ApiConfigValues :
        ApiCalled("update_config", update_config(manifest, k, v), api.logged)

ApiResetManifest ==
    ApiCalled("reset_manifest", reset_manifest(manifest, now), <<>>)

\* get_state, get_config, get_all_state, get_all_config, get_all_operations:
\* _read_manifest and a return, no _write_manifest
ApiReads ==
    \E name \in {"get_state", "get_config", "get_all"} :
        ApiCalled(name, manifest, api.logged)

LedgerInit ==
    /\ manifest = ensure_manifest_exists(NoManifest, 1)
    /\ now = 2
    /\ fs = FreshTree("template")
    /\ pc = "api"
    /\ cmd = NoCmd
    /\ input = NoInput
    /\ effects = NoEffects
    /\ stepLog = <<>>
    /\ m0 = NoManifest
    /\ snap = NoManifest
    /\ result = NoResult
    /\ runs = 0
    /\ role_i = 0
    /\ api = NoApi

LedgerNext ==
    \/ ApiLogOperation
    \/ ApiUpdateState
    \/ ApiUpdateConfig
    \/ ApiResetManifest
    \/ ApiReads

LedgerSpec == LedgerInit /\ [][LedgerNext]_vars

(* ------------------------- the running process -------------------------- *)

Outcomes == {"ok", "fail", "notfound"}

\* effects.log lists the external commands and local file changes of this
\* run, each command with the outcome its caller saw ("done" where the caller
\* never reads the exit status); effects.last is the outcome the platform
\* gave to the latest command
Logged(kind, what, arg, out, last) ==
    [log |-> Append(effects.log, [kind |-> kind, what |-> what, arg |-> arg, out |-> out]),
     last |-> last]
\* one external command whose exit status the caller acts on
Ran(what, arg, o) == Logged("cmd", what, arg, o, o)
\* one external command run with check=False, its exit status never read
RanDropped(what, arg, o) ==
    Logged("cmd", what, arg, IF o = "notfound" THEN o ELSE "done", o)
\* one change of a local file
Wrote(what) == Logged("file", what, "", "ok", effects.last)
WroteBoth(a, b) ==
    [log |-> effects.log \o <<[kind |-> "file", what |-> a, arg |-> "", out |-> "ok"],
                              [kind |-> "file", what |-> b, arg |-> "", out |-> "ok"]>>,
     last |-> effects.last]
\* one line on standard output
Printed(text) == Logged("print", text, "", "ok", effects.last)

Began(log, s) == Append(log, [step |-> s, ret |-> "running"])
Ended(log, r) == [log EXCEPT ![Len(log)].ret = r]
Running(log) == log # <<>> /\ log[Len(log)].ret = "running"
EndedIf(log, r) == IF Running(log) THEN Ended(log, r) ELSE log

\* the process moves to position p
Move(p, m, f, eff, log, i) ==
    /\ pc' = p
    /\ manifest' = m
    /\ fs' = f
    /\ effects' = eff
    /\ stepLog' = log
    /\ snap' = IF Len(log) > Len(stepLog) THEN m ELSE snap
    /\ role_i' = i
    /\ input' = NoInput
    /\ UNCHANGED <<now, cmd, m0, result, runs, api>>

Goto(p) == Move(p, manifest, fs, effects, stepLog, role_i)

\* the handler returns (or an exception reaches main) and main returns code
Finish(code, m, f, eff, log) ==
    /\ pc' = "done"
    /\ result' = code
    /\ manifest' = m
    /\ fs' = f
    /\ effects' = eff
    /\ stepLog' = log
    /\ input' = NoInput
    /\ UNCHANGED <<now, cmd, m0, snap, runs, role_i, api>>

Return(ok, log) == Finish(IF ok THEN 0 ELSE 1, manifest, fs, effects, log)

\* an exception no handler below main catches: main's "except Exception"
Raise(eff) == Finish(1, manifest, fs, eff, EndedIf(stepLog, "raise"))

\* response.lower() in ['y', 'yes']
IsYes(a) == Lower(a) \in {<<"y">>, <<"y", "e", "s">>}
\* variant: an empty answer counts as consent
IsYesOrEmpty(a) == Lower(a) \in {<<"y">>, <<"y", "e", "s">>, <<>>}
\* response.lower() == 'yes'
IsFullYes(a) == Lower(a) = <<"y", "e", "s">>

YesNoInputs ==
    {<<"y">>, <<"Y">>, <<"y", "e", "s">>, <<"Y", "E", "S">>, <<"n">>, <<>>,
     <<" ", "y">>, <<"y", "e">>}

NameInputs ==
    {project_name_text, DirName, <<"a", "p", "p", " ">>, <<"q">>, <<"X">>,
     <<" ", "q">>, <<>>, <<"n", "o">>}

YesNoPrompts == {"reinit_prompt", "redeploy_prompt", "confirm_deployment",
                 "cleanup_local", "sa_delete_prompt", "sa_remove_prompt"}
NamePrompts == {"confirm_cleanup"}

\* input(): the operator types a line at the pending prompt
OperatorTypes ==
    /\ input = NoInput
    /\ \/ pc \in YesNoPrompts /\ input' \in YesNoInputs
       \/ pc \in NamePrompts /\ input' \in NameInputs
    /\ UNCHANGED <<manifest, now, fs, pc, cmd, effects, stepLog, m0, snap, result,
                   runs, role_i, api>>

Answered(p) == pc = p /\ input # NoInput

(* -------------------------------- deploy ------------------------------- *)

\* DeployManager.deploy: "if self.manifest.get_state('deployed')"
DeployEntry ==
    /\ pc = "deploy"
    /\ IF get_state(manifest, "deployed") THEN Goto("redeploy_prompt")
                                          ELSE Goto("confirm_deployment")

RedeployPrompt ==
    /\ Answered("redeploy_prompt")
    /\ IF IsYes(input) THEN Goto("confirm_deployment") ELSE Return(FALSE, stepLog)

\* variant: the confirmation takes an empty answer as consent
ConfirmDeploymentLax ==
    /\ Answered("confirm_deployment")
    /\ IF IsYesOrEmpty(input)
       THEN Move("update_cicd", manifest, fs, effects,
                 Began(stepLog, "update_cicd"), role_i)
       ELSE Return(FALSE, stepLog)

ConfirmDeployment ==
    /\ Answered("confirm_deployment")
    /\ IF IsYes(input)
       THEN Move("update_cicd", manifest, fs, effects,
                 Began(stepLog, "update_cicd"), role_i)
       ELSE Return(FALSE, stepLog)

\* variant: the record is written although the rewrite failed
UpdateCicdLogsFirst ==
    /\ pc = "update_cicd"
    /\ \/ /\ fs.cicd = "absent"
          /\ Finish(1, log_operation(manifest, now, "update_cicd",
                       [service_account |-> service_account_name,
                        image_url |-> image_url]),
                    fs, effects, Ended(stepLog, "fail"))
       \/ /\ fs.cicd # "absent"
          /\ \/ Return(FALSE, Ended(stepLog, "fail"))
             \/ Move("update_cicd_log", manifest, [fs EXCEPT !.cicd = "active"],
                     Wrote("cicd.yaml"), stepLog, role_i)

\* GitHubManager.update_cicd_config: the file is missing, or rewriting it
\* raises (caught, False), or it is rewritten
UpdateCicd ==
    /\ pc = "update_cicd"
    /\ \/ /\ fs.cicd = "absent"
          /\ Return(FALSE, Ended(stepLog, "fail"))
       \/ /\ fs.cicd # "absent"
          /\ \/ Return(FALSE, Ended(stepLog, "fail"))
             \/ Move("update_cicd_log", manifest, [fs EXCEPT !.cicd = "active"],
                     Wrote("cicd.yaml"), stepLog, role_i)

UpdateCicdLog ==
    /\ pc = "update_cicd_log"
    /\ Move("start_colima",
            log_operation(manifest, now, "update_cicd",
                          [service_account |-> service_account_name,
                           image_url |-> image_url]),
            fs, effects, Began(Ended(stepLog, "ok"), "build_and_push_docker"), role_i)

StartColima ==
    /\ pc = "start_colima"
    /\ \E o \in Outcomes :
          LET eff == Ran("colima start", "", o) IN
          \/ o = "ok" /\ Move("build_image", manifest, fs, eff, stepLog, role_i)
          \/ o = "fail" /\ Finish(1, manifest, fs, eff, Ended(stepLog, "fail"))
          \/ o = "notfound" /\ Raise(eff)

\* variant: a failed build returns without stopping colima
BuildImageLeavesColima ==
    /\ pc = "build_image"
    /\ \E o \in Outcomes :
          LET eff == Ran("docker build", image_url, o) IN
          \/ o = "ok" /\ Move("push_image", manifest, fs, eff, stepLog, role_i)
          \/ o = "fail" /\ Finish(1, manifest, fs, eff, Ended(stepLog, "fail"))
          \/ o = "notfound" /\ Raise(eff)

BuildImage ==
    /\ pc = "build_image"
    /\ \E o \in Outcomes :
          LET eff == Ran("docker build", image_url, o) IN
          \/ o = "ok" /\ Move("push_image", manifest, fs, eff, stepLog, role_i)
          \/ o = "fail" /\ Move("stop_colima_build", manifest, fs, eff, stepLog, role_i)
          \/ o = "notfound" /\ Raise(eff)

\* variant: docker_built is recorded before the push
PushImageFlagFirst ==
    /\ pc = "push_image"
    /\ \E o \in Outcomes :
          LET eff == Ran("docker push", image_url, o)
              m == update_state(manifest, "docker_built", TRUE) IN
          \/ o = "ok" /\ Move("docker_built_flag", m, fs, eff, stepLog, role_i)
          \/ o = "fail" /\ Move("stop_colima_build", m, fs, eff, stepLog, role_i)
          \/ o = "notfound" /\ Finish(1, m, fs, eff, Ended(stepLog, "raise"))

PushImage ==
    /\ pc = "push_image"
    /\ \E o \in Outcomes :
          LET eff == Ran("docker push", image_url, o) IN
          \/ o = "ok" /\ Move("docker_built_flag", manifest, fs, eff, stepLog, role_i)
          \/ o = "fail" /\ Move("stop_colima_build", manifest, fs, eff, stepLog, role_i)
          \/ o = "notfound" /\ Raise(eff)

DockerBuiltFlag ==
    /\ pc = "docker_built_flag"
    /\ Move("docker_build_log", update_state(manifest, "docker_built", TRUE),
            fs, effects, stepLog, role_i)

DockerBuildLog ==
    /\ pc = "docker_build_log"
    /\ Move("deploy_to_cloud_run",
            log_operation(manifest, now, "docker_build", [image_url |-> image_url]),
            fs, effects, Began(Ended(stepLog, "ok"), "deploy_to_cloud_run"), role_i)

\* variant: a failed Cloud Run deploy goes on to the service account
DeployToCloudRunGoesOn ==
    /\ pc = "deploy_to_cloud_run"
    /\ \E o \in Outcomes :
          LET eff == Ran("gcloud run deploy", get_region(get_region(cmd.region)), o) IN
          \/ o = "ok" /\ Move("deployed_flag", manifest, fs, eff, stepLog, role_i)
          \/ o = "fail" /\ Move("sa_exists", manifest, fs, eff,
                                Began(Ended(stepLog, "fail"), "setup_service_account"),
                                role_i)
          \/ o = "notfound" /\ Raise(eff)

\* deploy passes "region or default_region"; GCPManager applies the default again
DeployToCloudRun ==
    /\ pc = "deploy_to_cloud_run"
    /\ \E o \in Outcomes :
          LET eff == Ran("gcloud run deploy", get_region(get_region(cmd.region)), o) IN
          \/ o = "ok" /\ Move("deployed_flag", manifest, fs, eff, stepLog, role_i)
          \/ o = "fail" /\ Move("stop_colima_failed", manifest, fs, eff,
                                Ended(stepLog, "fail"), role_i)
          \/ o = "notfound" /\ Raise(eff)

DeployedFlag ==
    /\ pc = "deployed_flag"
    /\ Move("region_config", update_state(manifest, "deployed", TRUE),
            fs, effects, stepLog, role_i)

\* variant: the region given on the command line is stored as given
RegionConfigAsGiven ==
    /\ pc = "region_config"
    /\ Move("deploy_log", update_config(manifest, "region", cmd.region),
            fs, effects, stepLog, role_i)

RegionConfig ==
    /\ pc = "region_config"
    /\ Move("deploy_log", update_config(manifest, "region", get_region(cmd.region)),
            fs, effects, stepLog, role_i)

DeployLog ==
    /\ pc = "deploy_log"
    /\ Move("sa_exists",
            log_operation(manifest, now, "deploy_cloud_run",
                          [region |-> get_region(cmd.region),
                           service_name |-> project_name]),
            fs, effects, Began(Ended(stepLog, "ok"), "setup_service_account"), role_i)

\* DockerManager.stop_colima, whose result every caller drops: after a failed
\* build or push (inside the step), after a failed later step, and at the end
StopColima ==
    /\ pc \in {"stop_colima_build", "stop_colima_failed", "stop_colima_final"}
    /\ \E o \in Outcomes :
          LET eff == Ran("colima stop", "", o) IN
          \/ /\ o \in {"ok", "fail"}
             /\ Finish(IF pc = "stop_colima_final" THEN 0 ELSE 1, manifest, fs, eff,
                       EndedIf(stepLog, "fail"))
          \/ o = "notfound" /\ Raise(eff)

(* --------------------------- service account --------------------------- *)

DefaultAddRoles ==
    <<"roles/artifactregistry.writer", "roles/run.developer",
      "roles/iam.serviceAccountUser">>
DefaultRemoveRoles ==
    <<"roles/run.admin", "roles/iam.serviceAccountUser", "roles/storage.admin",
      "roles/artifactregistry.admin", "roles/run.developer">>

\* "roles = None; if args.roles: roles = args.roles", then "if roles is None"
RolesOr(default) ==
    IF cmd.name = "service-account" /\ cmd.roles # <<>> THEN cmd.roles ELSE default

InSetup == cmd.name = "deploy"

\* ServiceAccountManager.setup returns False: deploy stops colima and fails
SetupFailed(eff) ==
    Move("stop_colima_failed", manifest, fs, eff, Ended(stepLog, "fail"), role_i)

\* variant: create() goes on to the create command although the account exists
SaExistsRecreates ==
    /\ pc = "sa_exists"
    /\ \E o \in Outcomes :
          LET eff == Ran("gcloud iam service-accounts describe", "", o) IN
          \/ o \in {"ok", "fail"} /\ Move("sa_create", manifest, fs, eff, stepLog, role_i)
          \/ o = "notfound" /\ Raise(eff)

\* ServiceAccountManager.exists: gcloud ... describe
SaExists ==
    /\ pc = "sa_exists"
    /\ \E o \in Outcomes :
          LET eff == Ran("gcloud iam service-accounts describe", "", o) IN
          \/ o = "ok" /\ Move("sa_exists_log", manifest, fs, eff, stepLog, role_i)
          \/ o = "fail" /\ Move("sa_create", manifest, fs, eff, stepLog, role_i)
          \/ o = "notfound" /\ Raise(eff)

\* create() has returned True: setup goes on to add_permissions
CreateReturnedTrue(m) ==
    IF InSetup THEN Move("add_role", m, fs, effects, stepLog, 1)
               ELSE Finish(0, m, fs, effects, stepLog)

SaExistsLog ==
    /\ pc = "sa_exists_log"
    /\ CreateReturnedTrue(
          log_operation(manifest, now, "create_service_account",
                        [email |-> service_account_email, status |-> "already_exists"]))

\* variant: setup goes on to add_permissions although create failed
SaCreateGoesOn ==
    /\ pc = "sa_create"
    /\ \E o \in Outcomes :
          LET eff == Ran("gcloud iam service-accounts create", "", o) IN
          \/ o = "ok" /\ Move("sa_create_log", manifest, fs, eff, stepLog, role_i)
          \/ o = "fail" /\ IF InSetup THEN Move("add_role", manifest, fs, eff, stepLog, 1)
                                       ELSE Finish(1, manifest, fs, eff, stepLog)
          \/ o = "notfound" /\ Raise(eff)

SaCreate ==
    /\ pc = "sa_create"
    /\ \E o \in Outcomes :
          LET eff == Ran("gcloud iam service-accounts create", "", o) IN
          \/ o = "ok" /\ Move("sa_create_log", manifest, fs, eff, stepLog, role_i)
          \/ o = "fail" /\ IF InSetup THEN SetupFailed(eff)
                                       ELSE Finish(1, manifest, fs, eff, stepLog)
          \/ o = "notfound" /\ Raise(eff)

SaCreateLog ==
    /\ pc = "sa_create_log"
    /\ CreateReturnedTrue(
          log_operation(manifest, now, "create_service_account",
                        [email |-> service_account_email]))

\* variant: a role whose command fails is skipped and the loop goes on
AddRoleGoesOn ==
    /\ pc = "add_role"
    /\ LET roles == RolesOr(DefaultAddRoles) IN
       \E o \in Outcomes :
          LET eff == Ran("gcloud projects add-iam-policy-binding", roles[role_i], o) IN
          \/ /\ o \in {"ok", "fail"}
             /\ IF role_i < Len(roles)
                THEN Move("add_role", manifest, fs, eff, stepLog, role_i + 1)
                ELSE Move("add_permissions_log", manifest, fs, eff, stepLog, 0)
          \/ o = "notfound" /\ Raise(eff)

\* one turn of the loop of add_permissions
AddRole ==
    /\ pc = "add_role"
    /\ LET roles == RolesOr(DefaultAddRoles) IN
       \E o \in Outcomes :
          LET eff == Ran("gcloud projects add-iam-policy-binding", roles[role_i], o) IN
          \/ /\ o = "ok"
             /\ IF role_i < Len(roles)
                THEN Move("add_role", manifest, fs, eff, stepLog, role_i + 1)
                ELSE Move("add_permissions_log", manifest, fs, eff, stepLog, 0)
          \/ o = "fail" /\ IF InSetup THEN SetupFailed(eff)
                                       ELSE Finish(1, manifest, fs, eff, stepLog)
          \/ o = "notfound" /\ Raise(eff)

AddPermissionsLog ==
    /\ pc = "add_permissions_log"
    /\ LET m == log_operation(manifest, now, "add_permissions",
                              [email |-> service_account_email,
                               roles |-> RolesOr(DefaultAddRoles)]) IN
       IF InSetup THEN Move("service_account_flag", m, fs, effects, stepLog, role_i)
                  ELSE Finish(0, m, fs, effects, stepLog)

\* ServiceAccountManager.setup: the flag, after create and add_permissions
ServiceAccountFlag ==
    /\ pc = "service_account_flag"
    /\ Move("create_key", update_state(manifest, "service_account_created", TRUE),
            fs, effects, Began(Ended(stepLog, "ok"), "setup_github_secrets"), role_i)

\* one turn of the loop of remove_permissions
RemoveRole ==
    /\ pc = "remove_role"
    /\ LET roles == RolesOr(DefaultRemoveRoles) IN
       \E o \in Outcomes :
          LET eff == Ran("gcloud projects remove-iam-policy-binding", roles[role_i], o) IN
          \/ /\ o = "ok"
             /\ IF role_i < Len(roles)
                THEN Move("remove_role", manifest, fs, eff, stepLog, role_i + 1)
                ELSE Move("remove_permissions_log", manifest, fs, eff, stepLog, 0)
          \/ o = "fail" /\ Finish(1, manifest, fs, eff, stepLog)
          \/ o = "notfound" /\ Raise(eff)

RemovePermissionsLog ==
    /\ pc = "remove_permissions_log"
    /\ Finish(0, log_operation(manifest, now, "remove_permissions",
                               [email |-> service_account_email,
                                roles |-> RolesOr(DefaultRemoveRoles)]),
              fs, effects, stepLog)

(* ---------------------------- GitHub secrets --------------------------- *)

\* setup_github_secrets returns False; deploy stops colima and fails
SecretsFailed(f, eff) ==
    Move("stop_colima_failed", manifest, f, eff, Ended(stepLog, "fail"), role_i)

\* "except Exception": the key file is removed if it exists
SecretsCaught(eff) == SecretsFailed([fs EXCEPT !.key_file = FALSE], eff)

\* ServiceAccountManager.create_key inside the try of setup_github_secrets
CreateKey ==
    /\ pc = "create_key"
    /\ \E o \in Outcomes :
          LET eff == Ran("gcloud iam service-accounts keys create", "sa-key.json", o) IN
          \/ o = "ok" /\ Move("create_key_log", manifest, [fs EXCEPT !.key_file = TRUE],
                              eff, stepLog, role_i)
          \/ o = "fail" /\ SecretsFailed(fs, eff)
          \/ o = "notfound" /\ SecretsCaught(eff)

CreateKeyLog ==
    /\ pc = "create_key_log"
    /\ Move("set_secret",
            log_operation(manifest, now, "create_key",
                          [email |-> service_account_email, key_file |-> "sa-key.json"]),
            fs, effects, stepLog, role_i)

\* GitHubManager.set_secret: a non-zero exit is caught there (False, and
\* setup_github_secrets returns at once); a missing gh raises into the
\* "except Exception" of setup_github_secrets
SetSecret ==
    /\ pc = "set_secret"
    /\ \E o \in Outcomes :
          LET eff == Ran("gh secret set", service_account_name, o) IN
          \/ o = "ok" /\ Move("remove_key_file", manifest, fs, eff, stepLog, role_i)
          \/ o = "fail" /\ SecretsFailed(fs, eff)
          \/ o = "notfound" /\ SecretsCaught(eff)

RemoveKeyFile ==
    /\ pc = "remove_key_file"
    /\ Move("secrets_flag", manifest, [fs EXCEPT !.key_file = FALSE],
            IF fs.key_file THEN Wrote("rm sa-key.json") ELSE effects, stepLog, role_i)

SecretsFlag ==
    /\ pc = "secrets_flag"
    /\ Move("secrets_log", update_state(manifest, "github_secrets_configured", TRUE),
            fs, effects, stepLog, role_i)

SecretsLog ==
    /\ pc = "secrets_log"
    /\ Move("stop_colima_final",
            log_operation(manifest, now, "setup_github_secrets",
                          [secret_name |-> service_account_name]),
            fs, effects, Ended(stepLog, "ok"), role_i)

(* --------------------------------- init -------------------------------- *)

\* the first step of initialize begins
BeginInit == Move("ensure_env_file", manifest, fs, effects,
                  Began(stepLog, "ensure_env_file"), role_i)

\* InitManager.initialize: "if self.manifest.get_state('initialized')"
InitEntry ==
    /\ pc = "init"
    /\ IF get_state(manifest, "initialized") THEN Goto("reinit_prompt") ELSE BeginInit

\* variant: a declined re-initialization still creates the .env file
ReinitPromptTouches ==
    /\ Answered("reinit_prompt")
    /\ IF IsYes(input) THEN BeginInit
       ELSE Finish(1, manifest, [fs EXCEPT !.env = TRUE], Wrote(".env"), stepLog)

ReinitPrompt ==
    /\ Answered("reinit_prompt")
    /\ IF IsYes(input) THEN BeginInit ELSE Return(FALSE, stepLog)

\* ProjectConfig.ensure_env_file
EnsureEnvFile ==
    /\ pc = "ensure_env_file"
    /\ Move("update_project_files", manifest, [fs EXCEPT !.env = TRUE],
            IF fs.env THEN effects ELSE Wrote(".env"),
            Began(Ended(stepLog, "ok"), "update_project_files"), role_i)

\* InitManager.update_project_files: both files rewritten, or an exception
\* (caught, False) at the first or at the second file
UpdateProjectFiles ==
    /\ pc = "update_project_files"
    /\ \/ Move("setup_frontend", manifest,
               [fs EXCEPT !.pyproject = "renamed", !.makefile = "renamed"],
               WroteBoth("pyproject.toml", "makefile"),
               Began(Ended(stepLog, "ok"), "setup_frontend"), role_i)
       \/ Return(FALSE, Ended(stepLog, "fail"))
       \/ Finish(1, manifest, [fs EXCEPT !.pyproject = "renamed"],
                 Wrote("pyproject.toml"), Ended(stepLog, "fail"))

\* setup_frontend has returned True: setup_backend begins
FrontendDone(eff) ==
    Move("setup_backend", manifest, fs, eff,
         Began(Ended(stepLog, "ok"), "setup_backend"), role_i)

\* InitManager.setup_frontend up to its first subprocess
SetupFrontend ==
    /\ pc = "setup_frontend"
    /\ IF fs.package_json
       THEN IF cmd.skip_frontend_build THEN FrontendDone(effects)
                                       ELSE Goto("npm_build")
       ELSE Move("npm_install", manifest, [fs EXCEPT !.package_json = TRUE],
                 Wrote("frontend/package.json"), stepLog, role_i)

NpmInstall ==
    /\ pc = "npm_install"
    /\ \E o \in Outcomes :
          LET eff == Ran("npm install", "", o) IN
          \/ /\ o = "ok"
             /\ IF cmd.skip_frontend_build
                THEN FrontendDone(eff)
                ELSE Move("npm_build", manifest, fs, eff, stepLog, role_i)
          \/ o = "fail" /\ Finish(1, manifest, fs, eff, Ended(stepLog, "fail"))
          \/ o = "notfound" /\ Raise(eff)

NpmBuild ==
    /\ pc = "npm_build"
    /\ \E o \in Outcomes :
          LET eff == Ran("npm run build", "", o) IN
          \/ o = "ok" /\ FrontendDone(eff)
          \/ o = "fail" /\ Finish(1, manifest, fs, eff, Ended(stepLog, "fail"))
          \/ o = "notfound" /\ Raise(eff)

\* variant: initialized is recorded whatever uv sync returned
SetupBackendFlagAnyway ==
    /\ pc = "setup_backend"
    /\ \E o \in Outcomes :
          LET eff == Ran("uv sync", "", o) IN
          \/ o \in {"ok", "fail"} /\ Move("initialized_flag", manifest, fs, eff,
                                          Ended(stepLog, "ok"), role_i)
          \/ o = "notfound" /\ Raise(eff)

SetupBackend ==
    /\ pc = "setup_backend"
    /\ \E o \in Outcomes :
          LET eff == Ran("uv sync", "", o) IN
          \/ o = "ok" /\ Move("initialized_flag", manifest, fs, eff,
                              Ended(stepLog, "ok"), role_i)
          \/ o = "fail" /\ Finish(1, manifest, fs, eff, Ended(stepLog, "fail"))
          \/ o = "notfound" /\ Raise(eff)

InitializedFlag ==
    /\ pc = "initialized_flag"
    /\ Move("project_name_config", update_state(manifest, "initialized", TRUE),
            fs, effects, stepLog, role_i)

\* variant: the project name is not recorded
ProjectNameConfigSkipped ==
    /\ pc = "project_name_config"
    /\ Goto("init_log")

ProjectNameConfig ==
    /\ pc = "project_name_config"
    /\ Move("init_log", update_config(manifest, "project_name", project_name),
            fs, effects, stepLog, role_i)

\* variant: initialize returns without its record
InitLogSkipped ==
    /\ pc = "init_log"
    /\ Return(TRUE, stepLog)

InitLog ==
    /\ pc = "init_log"
    /\ Finish(0, log_operation(manifest, now, "init", [type |-> "local"]),
              fs, effects, stepLog)

(* --------------------------------- clean ------------------------------- *)

AbortInputs == {<<"q">>, <<"x">>, <<"Q">>, <<"X">>}

\* variant: the typed name is compared without regard to letter case
ConfirmCleanupAnyCase ==
    /\ Answered("confirm_cleanup")
    /\ LET confirmation == Strip(input) IN
       IF confirmation \in AbortInputs THEN Return(FALSE, stepLog)
       ELSE IF Lower(confirmation) = project_name_text THEN Goto("cleanup_log")
       ELSE Goto("confirm_cleanup")

\* CleanManager.confirm_cleanup: one turn of its loop
ConfirmCleanup ==
    /\ Answered("confirm_cleanup")
    /\ LET confirmation == Strip(input) IN
       IF confirmation \in AbortInputs THEN Return(FALSE, stepLog)
       ELSE IF confirmation = project_name_text THEN Goto("cleanup_log")
       ELSE Goto("confirm_cleanup")

CleanupLog ==
    /\ pc = "cleanup_log"
    /\ Move("get_repo_name", log_operation(manifest, now, "cleanup", [type |-> "full"]),
            fs, effects, Began(stepLog, "cleanup_github"), role_i)

\* cleanup_github has returned r: cleanup_docker begins
GithubDone(eff, r) ==
    Move("stop_container", manifest, fs, eff,
         Began(Ended(stepLog, r), "cleanup_docker"), role_i)

\* GitHubManager.get_repo_name: only CalledProcessError is caught
GetRepoName ==
    /\ pc = "get_repo_name"
    /\ \E o \in Outcomes :
          LET eff == Ran("gh repo view", "", o) IN
          \/ o = "ok" /\ Move("delete_repository", manifest, fs, eff, stepLog, role_i)
          \/ o = "fail" /\ GithubDone(eff, "fail")
          \/ o = "notfound" /\ Raise(eff)

DeleteRepository ==
    /\ pc = "delete_repository"
    /\ \E o \in Outcomes :
          LET eff == Ran("gh repo delete", "", o) IN
          \/ o = "ok" /\ GithubDone(eff, "ok")
          \/ o = "fail" /\ GithubDone(eff, "fail")
          \/ o = "notfound" /\ Raise(eff)

\* DockerManager.stop_container: docker ps, whose output names containers or not
StopContainer ==
    /\ pc = "stop_container"
    /\ \E o \in Outcomes, ids \in BOOLEAN :
          LET eff == RanDropped("docker ps", IF ids THEN "ids" ELSE "", o) IN
          \/ o = "ok" /\ ids /\ Move("docker_stop", manifest, fs, eff, stepLog, role_i)
          \/ o \in {"ok", "fail"} /\ ~ids
                /\ Move("remove_image", manifest, fs, eff, stepLog, role_i)
          \/ o = "notfound" /\ ~ids /\ Raise(eff)

DockerStop ==
    /\ pc = "docker_stop"
    /\ \E o \in Outcomes :
          LET eff == RanDropped("docker stop", "", o) IN
          \/ o \in {"ok", "fail"} /\ Move("remove_image", manifest, fs, eff, stepLog, role_i)
          \/ o = "notfound" /\ Raise(eff)

RemoveImage ==
    /\ pc = "remove_image"
    /\ \E o \in Outcomes :
          LET eff == RanDropped("docker rmi", image_url, o) IN
          \/ o \in {"ok", "fail"}
                /\ Move("cleanup_gcp", manifest, fs, eff,
                        Began(Ended(stepLog, "ok"), "cleanup_gcp"), role_i)
          \/ o = "notfound" /\ Raise(eff)

\* CleanManager.cleanup_gcp: "if self.manifest.get_state('deployed')"
CleanupGcp ==
    /\ pc = "cleanup_gcp"
    /\ IF get_state(manifest, "deployed") THEN Goto("delete_cloud_run_service")
                                          ELSE Goto("gcp_service_account")

DeleteCloudRunService ==
    /\ pc = "delete_cloud_run_service"
    /\ \E o \in Outcomes :
          LET region == get_config(manifest, "region", default_region)
              eff == RanDropped("gcloud run services delete", get_region(region), o) IN
          \/ o \in {"ok", "fail"}
                /\ Move("gcp_service_account", manifest, fs, eff, stepLog, role_i)
          \/ o = "notfound" /\ Raise(eff)

\* cleanup_gcp has returned: clean goes on to cleanup_local or to the reset
GcpDone(m) ==
    IF cmd.skip_local
    THEN Move("reset_manifest", m, fs, effects,
              Began(Ended(stepLog, "ok"), "reset_manifest"), role_i)
    ELSE Move("cleanup_local", m, fs, effects,
              Began(Ended(stepLog, "ok"), "cleanup_local"), role_i)

\* variant: the service account is deleted whenever the service was deployed
GcpServiceAccountByDeployed ==
    /\ pc = "gcp_service_account"
    /\ IF get_state(manifest, "deployed") THEN Goto("sa_delete")
                                          ELSE GcpDone(manifest)

\* "if self.manifest.get_state('service_account_created')"
GcpServiceAccount ==
    /\ pc = "gcp_service_account"
    /\ IF get_state(manifest, "service_account_created") THEN Goto("sa_delete")
                                                          ELSE GcpDone(manifest)

\* variant: delete runs its command with check=True and reports a failure
SaDeleteChecked ==
    /\ pc = "sa_delete"
    /\ \E o \in Outcomes :
          LET eff == RanDropped("gcloud iam service-accounts delete", "", o) IN
          \/ o = "ok" /\ Move("sa_delete_log", manifest, fs, eff, stepLog, role_i)
          \/ o = "fail" /\ Finish(1, manifest, fs, eff, EndedIf(stepLog, "fail"))
          \/ o = "notfound" /\ Raise(eff)

\* ServiceAccountManager.delete: check=False, the exit status is not read
SaDelete ==
    /\ pc = "sa_delete"
    /\ \E o \in Outcomes :
          LET eff == RanDropped("gcloud iam service-accounts delete", "", o) IN
          \/ o \in {"ok", "fail"} /\ Move("sa_delete_log", manifest, fs, eff, stepLog, role_i)
          \/ o = "notfound" /\ Raise(eff)

\* variant: delete also clears the service_account_created flag
SaDeleteLogClearsFlag ==
    /\ pc = "sa_delete_log"
    /\ LET m == update_state(
                  log_operation(manifest, now, "delete_service_account",
                                [email |-> service_account_email]),
                  "service_account_created", FALSE) IN
       IF cmd.name = "clean" THEN GcpDone(m) ELSE Finish(0, m, fs, effects, stepLog)

SaDeleteLog ==
    /\ pc = "sa_delete_log"
    /\ LET m == log_operation(manifest, now, "delete_service_account",
                              [email |-> service_account_email]) IN
       IF cmd.name = "clean" THEN GcpDone(m) ELSE Finish(0, m, fs, effects, stepLog)

\* variant: a declined local deletion makes clean return failure
CleanupLocalDeclineFails ==
    /\ Answered("cleanup_local")
    /\ IF IsFullYes(input) THEN Goto("rmtree")
       ELSE Return(FALSE, Ended(stepLog, "fail"))

\* CleanManager.cleanup_local: "Are you absolutely sure?"
CleanupLocal ==
    /\ Answered("cleanup_local")
    /\ IF IsFullYes(input) THEN Goto("rmtree")
       ELSE Return(TRUE, Ended(stepLog, "fail"))

\* shutil.rmtree of the project root, the ledger file included; an error is
\* caught (False) with nothing or with part of the tree removed
Rmtree ==
    /\ pc = "rmtree"
    /\ \/ Move("git_clone", NoManifest, [fs EXCEPT !.tree = "gone"],
               Wrote("rmtree"), stepLog, role_i)
       \/ Return(TRUE, Ended(stepLog, "fail"))
       \/ Finish(0, NoManifest, [fs EXCEPT !.tree = "damaged"], Wrote("rmtree"),
                 Ended(stepLog, "fail"))

\* create_template_from_git catches both errors; cleanup_local returns True
GitClone ==
    /\ pc = "git_clone"
    /\ \E o \in Outcomes :
          LET eff == Ran("git clone", "", o) IN
          \/ o = "ok" /\ Finish(0, manifest, FreshTree("template"), eff,
                                Ended(stepLog, "ok"))
          \/ o \in {"fail", "notfound"} /\ Finish(0, manifest, fs, eff, Ended(stepLog, "ok"))

ResetManifest ==
    /\ pc = "reset_manifest"
    /\ Finish(0, reset_manifest(manifest, now), fs, effects, Ended(stepLog, "ok"))

(* --------------------- the other command handlers ---------------------- *)

\* cmd_service_account, delete and remove-permissions: "(yes/N)"
SaDeletePrompt ==
    /\ Answered("sa_delete_prompt")
    /\ IF IsFullYes(input) THEN Goto("sa_delete") ELSE Return(FALSE, stepLog)

SaRemovePrompt ==
    /\ Answered("sa_remove_prompt")
    /\ IF IsFullYes(input) THEN Goto("remove_role") ELSE Return(FALSE, stepLog)

\* the texts given on the command line to config --set and --get, each with
\* the characters it is made of
ArgTexts == {"region", "us-east1", " us-east1 ", ""}
ArgChars(v) ==
    CASE v = "region" -> <<"r", "e", "g", "i", "o", "n">>
      [] v = "us-east1" -> <<"u", "s", "-", "e", "a", "s", "t", "1">>
      [] v = " us-east1 " -> <<" ", "u", "s", "-", "e", "a", "s", "t", "1", " ">>
      [] v = "" -> <<>>
ArgText(chars) == CHOOSE v \in ArgTexts : ArgChars(v) = chars
\* key.strip(), value.strip()
StripText(v) == ArgText(Strip(ArgChars(v)))

NotFound == "Config key not found"

\* variant: --get tests the truth of the value, not "is not None"
ConfigCommandTruthy ==
    /\ pc = "config"
    /\ \/ /\ cmd.action = "get"
          /\ IF cmd.key \in DOMAIN manifest.config /\ manifest.config[cmd.key] # ""
             THEN Finish(0, manifest, fs, Printed(manifest.config[cmd.key]), stepLog)
             ELSE Finish(1, manifest, fs, Printed(NotFound), stepLog)
       \/ /\ cmd.action = "set"
          /\ Finish(0, update_config(manifest, StripText(cmd.key), StripText(cmd.value)),
                    fs, effects, stepLog)
       \/ /\ cmd.action = "list"
          /\ Return(TRUE, stepLog)

\* cmd_config
ConfigCommand ==
    /\ pc = "config"
    /\ \/ /\ cmd.action = "get"
          /\ IF cmd.key \in DOMAIN manifest.config
             THEN Finish(0, manifest, fs, Printed(manifest.config[cmd.key]), stepLog)
             ELSE Finish(1, manifest, fs, Printed(NotFound), stepLog)
       \/ /\ cmd.action = "set"
          /\ Finish(0, update_config(manifest, StripText(cmd.key), StripText(cmd.value)),
                    fs, effects, stepLog)
       \/ /\ cmd.action = "list"
          /\ Return(TRUE, stepLog)

\* cmd_status, cmd_history: readers
StatusCommand ==
    /\ pc \in {"status", "history"}
    /\ Return(TRUE, stepLog)

(* -------------------------------- main --------------------------------- *)

Command(name, action) == [NoCmd EXCEPT !.name = name, !.action = action]

ExplicitRoles == <<"roles/run.admin", "roles/storage.admin">>

Commands ==
    {[Command("init", "") EXCEPT !.skip_frontend_build = b] : b \in BOOLEAN}
    \cup {[Command("deploy", "") EXCEPT !.region = r] : r \in {"", "us-east1"}}
    \cup {[Command("clean", "") EXCEPT !.skip_local = b] : b \in BOOLEAN}
    \cup {Command("service-account", "create"), Command("service-account", "delete")}
    \cup {[Command("service-account", a) EXCEPT !.roles = r] :
             a \in {"add-permissions", "remove-permissions"},
             r \in {<<>>, ExplicitRoles}}
    \cup {[Command("config", "set") EXCEPT !.key = "region", !.value = v] :
             v \in {"us-east1", " us-east1 ", ""}}
    \cup {[Command("config", "get") EXCEPT !.key = "region"], Command("config", "list")}
    \cup {Command("status", ""), Command("history", "")}

Entry(c) ==
    CASE c.name = "init" -> "init"
      [] c.name = "deploy" -> "deploy"
      [] c.name = "clean" -> "confirm_cleanup"
      [] c.name = "config" -> "config"
      [] c.name = "status" -> "status"
      [] c.name = "history" -> "history"
      [] c.name = "service-account" /\ c.action = "create" -> "sa_exists"
      [] c.name = "service-account" /\ c.action = "delete" -> "sa_delete_prompt"
      [] c.name = "service-account" /\ c.action = "add-permissions" -> "add_role"
      [] c.name = "service-account" /\ c.action = "remove-permissions" -> "sa_remove_prompt"

\* main: ProjectConfig(), ManifestManager(), then the handler of the command
StartProcess ==
    /\ pc = "idle"
    /\ runs < MaxRuns
    /\ fs.tree = "present"
    /\ \E c \in Commands :
          /\ cmd' = c
          /\ pc' = Entry(c)
    /\ manifest' = ensure_manifest_exists(manifest, now)
    /\ m0' = manifest'
    /\ snap' = manifest'
    /\ now' = now + 1
    /\ runs' = runs + 1
    /\ role_i' = 1
    /\ effects' = NoEffects
    /\ stepLog' = <<>>
    /\ result' = NoResult
    /\ input' = NoInput
    /\ UNCHANGED <<fs, api>>

\* a process started where the ledger file is absent or json.load can read it
\* (a process started on a file json.load cannot read: UnreadableSpec)
Start ==
    /\ manifest.exists => Parseable(manifest)
    /\ StartProcess

\* sys.exit(main()): the process ends
Exit ==
    /\ pc = "done"
    /\ pc' = "idle"
    /\ cmd' = NoCmd
    /\ effects' = NoEffects
    /\ stepLog' = <<>>
    /\ m0' = NoManifest
    /\ snap' = NoManifest
    /\ result' = NoResult
    /\ role_i' = 0
    /\ input' = NoInput
    /\ UNCHANGED <<manifest, now, fs, runs, api>>

Init ==
    /\ manifest = NoManifest
    /\ now = 1
    /\ fs \in {FreshTree(c) : c \in {"template", "absent"}}
    /\ pc = "idle"
    /\ cmd = NoCmd
    /\ input = NoInput
    /\ effects = NoEffects
    /\ stepLog = <<>>
    /\ m0 = NoManifest
    /\ snap = NoManifest
    /\ result = NoResult
    /\ runs = 0
    /\ role_i = 0
    /\ api = NoApi

Next ==
    \/ Start
    \/ Exit
    \/ OperatorTypes
    \/ InitEntry
    \/ ReinitPrompt
    \/ EnsureEnvFile
    \/ UpdateProjectFiles
    \/ SetupFrontend
    \/ NpmInstall
    \/ NpmBuild
    \/ SetupBackend
    \/ InitializedFlag
    \/ ProjectNameConfig
    \/ InitLog
    \/ DeployEntry
    \/ RedeployPrompt
    \/ ConfirmDeployment
    \/ UpdateCicd
    \/ UpdateCicdLog
    \/ StartColima
    \/ BuildImage
    \/ PushImage
    \/ DockerBuiltFlag
    \/ DockerBuildLog
    \/ DeployToCloudRun
    \/ DeployedFlag
    \/ RegionConfig
    \/ DeployLog
    \/ StopColima
    \/ SaExists
    \/ SaExistsLog
    \/ SaCreate
    \/ SaCreateLog
    \/ AddRole
    \/ AddPermissionsLog
    \/ ServiceAccountFlag
    \/ RemoveRole
    \/ RemovePermissionsLog
    \/ CreateKey
    \/ CreateKeyLog
    \/ SetSecret
    \/ RemoveKeyFile
    \/ SecretsFlag
    \/ SecretsLog
    \/ ConfirmCleanup
    \/ CleanupLog
    \/ GetRepoName
    \/ DeleteRepository
    \/ StopContainer
    \/ DockerStop
    \/ RemoveImage
    \/ CleanupGcp
    \/ DeleteCloudRunService
    \/ GcpServiceAccount
    \/ SaDelete
    \/ SaDeleteLog
    \/ CleanupLocal
    \/ Rmtree
    \/ GitClone
    \/ ResetManifest
    \/ SaDeletePrompt
    \/ SaRemovePrompt
    \/ ConfigCommand
    \/ StatusCommand

Spec == Init /\ [][Next]_vars

(* ------------------------- operator interrupts ------------------------- *)
\* InterruptSpec: the runs of Spec, and Ctrl-C (KeyboardInterrupt) at any point
\* of a run.  No handler below main catches KeyboardInterrupt ("except
\* Exception" does not); main returns 130.

Interrupted == 130

\* main's line on KeyboardInterrupt
Cancelled == "Operation cancelled by user"

\* the positions whose next statement is a ledger write (_write_manifest)
WritePoints ==
    {"update_cicd_log", "docker_built_flag", "docker_build_log", "deployed_flag",
     "region_config", "deploy_log", "sa_exists_log", "sa_create_log",
     "add_permissions_log", "service_account_flag", "remove_permissions_log",
     "create_key_log", "secrets_flag", "secrets_log", "initialized_flag",
     "project_name_config", "init_log", "cleanup_log", "sa_delete_log",
     "reset_manifest"}

AtWrite == pc \in WritePoints \/ (pc = "config" /\ cmd.action = "set")

\* the interrupt arrives between two ledger writes: at a prompt, during an
\* external command, or between statements
\* variant: KeyboardInterrupt is handled like any other exception
InterruptAsError ==
    /\ pc \notin {"idle", "done", "api"}
    /\ Raise(effects)

Interrupt ==
    /\ pc \notin {"idle", "done", "api"}
    /\ Finish(Interrupted, manifest, fs, Printed(Cancelled),
              EndedIf(stepLog, "interrupt"))

\* the interrupt arrives inside _write_manifest, after open(path, 'w') has
\* truncated the file and before json.dump has written all of the data
InterruptedWrite ==
    /\ AtWrite
    /\ \E kind \in {"empty", "partial"} :
          Finish(Interrupted, Torn(kind), fs, Printed(Cancelled),
                 EndedIf(stepLog, "interrupt"))

InterruptNext ==
    \/ Next
    \/ Interrupt
    \/ InterruptedWrite

InterruptSpec == Init /\ [][InterruptNext]_vars

(* ----------------------- an unreadable ledger file ---------------------- *)
\* UnreadableSpec: processes started where the ledger file exists and
\* json.load cannot read it (an earlier write was cut short).  Every method of
\* ManifestManager begins with _read_manifest, which raises
\* json.JSONDecodeError; no handler on these paths catches it below main.

\* the positions whose next statement calls a method of ManifestManager, of
\* those a process reaches before its first call
LedgerAccessPoints ==
    {"init", "deploy", "config", "status", "history", "cleanup_log",
     "sa_exists_log", "sa_create_log", "add_permissions_log",
     "remove_permissions_log", "sa_delete_log"}

Unreadable(m) == m.exists /\ ~Parseable(m)

StartUnreadable ==
    /\ Unreadable(manifest)
    /\ StartProcess

\* variant: a ledger that cannot be parsed is replaced by a fresh one
LedgerAccessRecreates ==
    /\ Unreadable(manifest)
    /\ pc \in LedgerAccessPoints
    /\ Finish(1, initial_data(now), fs, effects, EndedIf(stepLog, "raise"))

\* _read_manifest raises; main prints the error and returns 1
LedgerAccessFails ==
    /\ Unreadable(manifest)
    /\ pc \in LedgerAccessPoints
    /\ Raise(effects)

UnreadableInit ==
    /\ manifest \in {Torn(kind) : kind \in {"empty", "partial"}}
    /\ now = 2
    /\ fs \in {FreshTree(c) : c \in {"template", "absent"}}
    /\ pc = "idle"
    /\ cmd = NoCmd
    /\ input = NoInput
    /\ effects = NoEffects
    /\ stepLog = <<>>
    /\ m0 = NoManifest
    /\ snap = NoManifest
    /\ result = NoResult
    /\ runs = 0
    /\ role_i = 0
    /\ api = NoApi

\* the statements a handler runs before its first ledger call touch no ledger
UnreadableNext ==
    \/ StartUnreadable
    \/ Exit
    \/ OperatorTypes
    \/ ConfirmCleanup
    \/ SaDeletePrompt
    \/ SaRemovePrompt
    \/ SaExists
    \/ SaCreate
    \/ AddRole
    \/ RemoveRole
    \/ SaDelete
    \/ LedgerAccessFails

UnreadableSpec == UnreadableInit /\ [][UnreadableNext]_vars

(* ------------------------------ claims -------------------------------- *)

\* C1: log_operation is append-only and order-preserving: one call on a
\* ledger of N records leaves N+1 records, the first N unchanged and in
\* place, the new record last; so the operations list is the sequence of
\* log_operation calls in call order.
C1_AppendOnly ==
    /\ api.last = "log_operation" =>
          LET old == api.prev.operations
              new == manifest.operations
          IN  /\ Len(new) = Len(old) + 1
              /\ SubSeq(new, 1, Len(old)) = old
              /\ new[Len(new)].operation = api.logged[Len(api.logged)].operation
              /\ new[Len(new)].details = api.logged[Len(api.logged)].details
    /\ Len(manifest.operations) = Len(api.logged)
    /\ \A i \in 1..Len(api.logged) :
          /\ manifest.operations[i].operation = api.logged[i].operation
          /\ manifest.operations[i].details = api.logged[i].details

\* a third record was appended behind two different earlier ones
C1_Witness ==
    /\ api.last = "log_operation"
    /\ Len(manifest.operations) = 3
    /\ manifest.operations[1].operation # manifest.operations[2].operation

\* what a read of the ledger shows apart from its creation time
Shape(m) == [operations |-> m.operations, state |-> m.state, config |-> m.config]

\* C2: after any sequence of update_state, update_config and log_operation
\* calls, reset_manifest leaves the canonical empty shape (no operations, the
\* five flags false and no other state key, no config), and a reset of an
\* already reset ledger leaves the same shape.
C2_ResetCanonical ==
    api.last = "reset_manifest" =>
        /\ Canonical(manifest)
        /\ Canonical(api.prev) => Shape(manifest) = Shape(api.prev)

\* a reset of a ledger holding records, a true flag, an unknown key and config
C2_Witness ==
    /\ api.last = "reset_manifest"
    /\ api.prev.operations # <<>>
    /\ "custom" \in DOMAIN api.prev.state
    /\ \E k \in Flags : api.prev.state[k]
    /\ DOMAIN api.prev.config # {}

(* ---- the workflows (Spec) ---- *)

InitSteps == <<"ensure_env_file", "update_project_files", "setup_frontend",
               "setup_backend">>
DeploySteps == <<"update_cicd", "build_and_push_docker", "deploy_to_cloud_run",
                 "setup_service_account", "setup_github_secrets">>
FailFast == cmd.name \in {"init", "deploy"}
StepsOf(c) == IF c.name = "init" THEN InitSteps ELSE DeploySteps

\* the external commands of this run, and those that reported success
CmdLog == SelectSeq(effects.log, LAMBDA e : e.kind = "cmd")
Succeeded(what) == \E i \in 1..Len(CmdLog) : CmdLog[i].what = what /\ CmdLog[i].out = "ok"
SucceededWith(what, arg) ==
    \E i \in 1..Len(CmdLog) :
        CmdLog[i].what = what /\ CmdLog[i].arg = arg /\ CmdLog[i].out = "ok"
AllSucceeded == \A i \in 1..Len(CmdLog) : CmdLog[i].out = "ok"
StepOk(s) == \E i \in 1..Len(stepLog) : stepLog[i].step = s /\ stepLog[i].ret = "ok"
LastStep == stepLog[Len(stepLog)]
StepFailed == stepLog # <<>> /\ LastStep.ret \in {"fail", "raise"}

\* a run is in progress; the flag was false when it began and is true now
NewlySet(f) == pc # "idle" /\ get_state(manifest, f) /\ ~get_state(m0, f)

\* the answers that response.lower() in ['y', 'yes'] accepts
YesForms == {<<"y">>, <<"Y">>, <<"y", "e", "s">>, <<"Y", "E", "S">>}

\* C3: a state flag is true only if the external commands of its step have
\* all reported success before: a run that finds the flag false and makes it
\* true has seen every command of that step exit with status 0.
C3_FlagsAfterSuccess ==
    /\ NewlySet("initialized") =>
          /\ cmd.name = "init"
          /\ AllSucceeded
          /\ Succeeded("uv sync")
          /\ cmd.skip_frontend_build \/ Succeeded("npm run build")
          /\ \A i \in 1..Len(InitSteps) : StepOk(InitSteps[i])
    /\ NewlySet("docker_built") =>
          /\ Succeeded("colima start")
          /\ Succeeded("docker build")
          /\ Succeeded("docker push")
    /\ NewlySet("deployed") => Succeeded("gcloud run deploy")
    /\ NewlySet("service_account_created") =>
          /\ \/ Succeeded("gcloud iam service-accounts describe")
             \/ Succeeded("gcloud iam service-accounts create")
          /\ \A i \in 1..Len(DefaultAddRoles) :
                SucceededWith("gcloud projects add-iam-policy-binding", DefaultAddRoles[i])
    /\ NewlySet("github_secrets_configured") =>
          /\ Succeeded("gcloud iam service-accounts keys create")
          /\ Succeeded("gh secret set")

\* all five flags are true, four of them set by the deploy that just ended
C3_Witness ==
    /\ pc = "done"
    /\ cmd.name = "deploy"
    /\ \A f \in Flags : get_state(manifest, f)
    /\ \A f \in Flags \ {"initialized"} : NewlySet(f)

\* the steps run in their order, each after the success of the one before;
\* a failed step is the last one and the run ends with status 1
C4_Ordered ==
    FailFast =>
        /\ Len(stepLog) <= Len(StepsOf(cmd))
        /\ \A i \in 1..Len(stepLog) : stepLog[i].step = StepsOf(cmd)[i]
        /\ \A i \in 1..(Len(stepLog) - 1) : stepLog[i].ret = "ok"
        /\ StepFailed => pc \in {"stop_colima_failed", "done"}
        /\ StepFailed /\ pc = "done" => result = 1

\* after a failed step: no ledger write, no new step, and no command other
\* than stopping the container runtime
C4_AfterFailure ==
    FailFast /\ StepFailed =>
        /\ manifest' = manifest
        /\ stepLog' = stepLog \/ pc' = "idle"
        /\ \A i \in (Len(effects.log) + 1)..Len(effects'.log) :
              effects'.log[i].what = "colima stop"

\* no step of a run takes back a flag, a config key or a record
C4_NoUnwind ==
    FailFast /\ pc' # "idle" =>
        /\ \A f \in Flags : get_state(manifest, f) => get_state(manifest', f)
        /\ \A k \in DOMAIN manifest.config : k \in DOMAIN manifest'.config
        /\ Len(manifest'.operations) >= Len(manifest.operations)
        /\ SubSeq(manifest'.operations, 1, Len(manifest.operations)) = manifest.operations

\* C4: Init and Deploy are fail-fast and strictly ordered: a step starts only
\* after every earlier step returned success; once a step has failed the run
\* ends in failure, no further step starts, nothing more is written to the
\* ledger and no command other than stopping the container runtime is
\* issued; what earlier steps wrote stays (no unwind).
C4_FailFast == [](C4_Ordered) /\ [][C4_AfterFailure /\ C4_NoUnwind]_vars

\* a deploy failed at its third step; the flag of the second step is kept
C4_Witness ==
    /\ pc = "done"
    /\ cmd.name = "deploy"
    /\ Len(stepLog) = 3
    /\ LastStep.ret = "fail"
    /\ NewlySet("docker_built")
    /\ result = 1

\* C5: when a step of Init or Deploy returns failure, every state flag and
\* every config value is what it was when the step began.
C5_FailedStepFrame ==
    FailFast /\ stepLog # <<>> /\ LastStep.ret = "fail" =>
        /\ manifest.state = snap.state
        /\ manifest.config = snap.config
        /\ \A f \in Flags : get_state(manifest, f) = get_state(snap, f)
        /\ \A k \in {"region", "project_name"} :
              get_config(manifest, k, "") = get_config(snap, k, "")

\* the secrets step failed after it had appended its create_key record
C5_Witness ==
    /\ cmd.name = "deploy"
    /\ stepLog # <<>>
    /\ LastStep.step = "setup_github_secrets"
    /\ LastStep.ret = "fail"
    /\ Len(manifest.operations) > Len(snap.operations)

\* C6: on a fresh ledger, a confirmed deploy whose CI-update step fails
\* returns failure with deployed false, no operation recorded and no
\* external command issued.
C6_CicdFailure ==
    /\ pc = "done"
    /\ cmd.name = "deploy"
    /\ Canonical(m0)
    /\ stepLog = <<[step |-> "update_cicd", ret |-> "fail"]>>
    => /\ result = 1
       /\ ~get_state(manifest, "deployed")
       /\ manifest.operations = <<>>
       /\ CmdLog = <<>>

\* a confirmed deploy to us-east1 on a fresh ledger failed at its first step
C6_Witness ==
    /\ pc = "done"
    /\ cmd.name = "deploy"
    /\ cmd.region = "us-east1"
    /\ Canonical(m0)
    /\ stepLog = <<[step |-> "update_cicd", ret |-> "fail"]>>
    /\ result = 1

\* the step taken on an answer other than y or yes
C7_Declines ==
    /\ pc = "reinit_prompt"
    /\ input # NoInput
    /\ input \notin YesForms
    => /\ pc' = "done"
       /\ result' = 1
       /\ manifest' = manifest
       /\ manifest' = m0
       /\ fs' = fs
       /\ effects'.log = <<>>
       /\ stepLog' = <<>>

\* the end of a run that found initialized true and began no step
C7_Declined ==
    /\ pc = "done"
    /\ cmd.name = "init"
    /\ get_state(m0, "initialized")
    /\ stepLog = <<>>
    => /\ result = 1
       /\ manifest = m0
       /\ effects.log = <<>>

\* C7: with initialized true, an answer to the re-initialize prompt that is
\* not y or yes (in any letter case) makes initialize return failure with no
\* external command, no local file change and no ledger mutation.
C7_DeclinedReinit == [](C7_Declined) /\ [][C7_Declines]_vars

\* a re-initialization was declined
C7_Witness ==
    /\ pc = "done"
    /\ cmd.name = "init"
    /\ get_state(m0, "initialized")
    /\ stepLog = <<>>
    /\ result = 1

\* until the first step begins a deploy has run no command and written nothing
C8_BeforeConsent ==
    cmd.name = "deploy" /\ stepLog = <<>> =>
        /\ manifest = m0
        /\ effects.log = <<>>
        /\ pc = "done" => result = 1

\* the first step begins only on an accepted confirmation, which a deployed
\* project reaches only through an accepted re-deploy prompt
C8_Prompts ==
    cmd.name = "deploy" =>
        /\ pc = "deploy" /\ get_state(manifest, "deployed") => pc' = "redeploy_prompt"
        /\ pc = "redeploy_prompt" /\ pc' # pc =>
              \/ pc' = "confirm_deployment" /\ input \in YesForms
              \/ pc' = "done" /\ result' = 1 /\ input \notin YesForms /\ manifest' = manifest
        /\ pc = "confirm_deployment" /\ pc' # pc =>
              \/ pc' = "update_cicd" /\ input \in YesForms
              \/ pc' = "done" /\ result' = 1 /\ input \notin YesForms /\ manifest' = manifest
        /\ stepLog = <<>> /\ stepLog' # <<>> =>
              pc = "confirm_deployment" /\ input \in YesForms

\* C8: Deploy issues no external command and writes nothing to the ledger
\* unless the operator accepted the deployment confirmation, and, when
\* deployed is already true, accepted the re-deploy prompt before that;
\* declining either prompt returns failure with the ledger unchanged.
C8_ConsentFirst == [](C8_BeforeConsent) /\ [][C8_Prompts]_vars

\* a re-deploy was declined
C8_Witness ==
    /\ pc = "done"
    /\ cmd.name = "deploy"
    /\ get_state(m0, "deployed")
    /\ stepLog = <<>>
    /\ result = 1

\* C9: whenever setup_github_secrets has returned, on every path, the local
\* credential file sa-key.json no longer exists.
C9_KeyFileRemoved ==
    \A i \in 1..Len(stepLog) :
        stepLog[i].step = "setup_github_secrets" /\ stepLog[i].ret \in {"ok", "fail"}
            => ~fs.key_file

\* C10: once a clean is confirmed, every phase is attempted whatever the
\* outcome (exit 0, non-zero exit, executable not found) of any earlier
\* external command.
C10_AllPhasesAttempted ==
    pc = "done" /\ cmd.name = "clean" /\ stepLog # <<>> =>
        /\ \A p \in {"cleanup_github", "cleanup_docker", "cleanup_gcp"} :
              \E i \in 1..Len(stepLog) : stepLog[i].step = p
        /\ \E i \in 1..Len(stepLog) :
              stepLog[i].step = IF cmd.skip_local THEN "reset_manifest" ELSE "cleanup_local"

\* C11: a confirmed clean with skip_local, started on a ledger with deployed
\* and service_account_created true, leaves the canonical empty ledger when
\* it ends, whatever the outcomes of its external commands.
C11_SkipLocalResets ==
    /\ pc = "done"
    /\ cmd.name = "clean"
    /\ cmd.skip_local
    /\ stepLog # <<>>
    /\ get_state(m0, "deployed")
    /\ get_state(m0, "service_account_created")
    => Canonical(manifest)

\* the characters of a typed line other than blanks
NonSpace(a) == SelectSeq(a, LAMBDA c : c # " ")
TypedName(a) == NonSpace(a) = <<"a", "p", "p">>
TypedAbort(a) == NonSpace(a) \in {<<"q">>, <<"x">>, <<"Q">>, <<"X">>}

\* until the name is typed a clean has run no command and written nothing,
\* and a clean that ends there ends in failure
C12_BeforeName ==
    cmd.name = "clean" /\ (pc = "confirm_cleanup" \/ stepLog = <<>>) =>
        /\ manifest = m0
        /\ effects.log = <<>>
        /\ pc \in {"confirm_cleanup", "cleanup_log", "done"}
        /\ pc = "done" => result = 1

\* the step taken on a typed line: the name goes on, a sentinel ends the run
\* in failure, anything else asks again; none of them has a side effect
C12_Answer ==
    pc = "confirm_cleanup" /\ input # NoInput =>
        /\ manifest' = manifest
        /\ fs' = fs
        /\ effects' = effects
        /\ stepLog' = stepLog
        /\ TypedAbort(input) => pc' = "done" /\ result' = 1
        /\ TypedName(input) => pc' = "cleanup_log"
        /\ ~TypedAbort(input) /\ ~TypedName(input) =>
              pc' = "confirm_cleanup" /\ input' = NoInput /\ result' = result

\* C12: Clean performs no external command and no ledger mutation until the
\* operator has typed the project name; an abort sentinel (q, x, Q, X) makes
\* clean return failure with the ledger unchanged, and any other line only
\* asks again without side effects.
C12_NameFirst == [](C12_BeforeName) /\ [][C12_Answer]_vars

\* a clean of a deployed project was aborted at the prompt
C12_Witness ==
    /\ pc = "done"
    /\ cmd.name = "clean"
    /\ stepLog = <<>>
    /\ result = 1
    /\ get_state(m0, "deployed")

\* the working tree is as this run found it: shutil.rmtree removed nothing
TreeKept ==
    /\ fs.tree = "present"
    /\ \A i \in 1..Len(effects.log) : effects.log[i].what # "rmtree"

\* C13: whenever a confirmed clean finishes without the working tree having
\* been deleted (skip_local, a declined "absolutely sure" prompt, or a failed
\* deletion), the ledger has been reset to the canonical empty state.
C13_ResetWhenTreeKept ==
    /\ pc = "done"
    /\ cmd.name = "clean"
    /\ stepLog # <<>>
    /\ result = 0
    /\ TreeKept
    => Canonical(manifest)

\* the records this run has appended to the ledger it found
NewOps == SubSeq(manifest.operations, Len(m0.operations) + 1, Len(manifest.operations))
NewOpsOf(operation) == SelectSeq(NewOps, LAMBDA r : r.operation = operation)
Issued(what) == \E i \in 1..Len(CmdLog) : CmdLog[i].what = what

\* exists() has reported the account present in this run
ReportedPresent ==
    /\ cmd.name \in {"deploy", "service-account"}
    /\ Succeeded("gcloud iam service-accounts describe")

\* no create command; once create() has returned, one record, tagged
\* already_exists; "service-account create" exits 0 with flags and config as found
C14_NoRecreate ==
    ReportedPresent =>
        /\ ~Issued("gcloud iam service-accounts create")
        /\ pc # "sa_exists_log" =>
              /\ Len(NewOpsOf("create_service_account")) = 1
              /\ "status" \in DOMAIN NewOpsOf("create_service_account")[1].details
              /\ NewOpsOf("create_service_account")[1].details.status = "already_exists"
        /\ cmd.name = "service-account" /\ pc = "done" =>
              /\ result = 0
              /\ manifest.state = m0.state
              /\ manifest.config = m0.config
              /\ Len(NewOps) = 1

\* the step in which create() returns: it appends the record, leaves flags
\* and config alone and reports success to its caller
C14_Returns ==
    pc = "sa_exists_log" =>
        /\ manifest'.operations =
              Append(manifest.operations, manifest'.operations[Len(manifest'.operations)])
        /\ manifest'.state = manifest.state
        /\ manifest'.config = manifest.config
        /\ effects' = effects
        /\ IF cmd.name = "deploy" THEN pc' = "add_role" ELSE pc' = "done" /\ result' = 0

\* C14: when exists() reports the service account present, create() issues
\* no create command, returns success and appends exactly one
\* create_service_account record with status "already_exists"; state flags
\* and config are unchanged.
C14_AlreadyExists == [](C14_NoRecreate) /\ [][C14_Returns]_vars

\* "service-account create" on a deployed project whose account exists
C14_Witness ==
    /\ pc = "done"
    /\ cmd.name = "service-account"
    /\ cmd.action = "create"
    /\ ReportedPresent
    /\ get_state(m0, "service_account_created")

\* C15: every invocation of a mutating service-account operation (create,
\* delete, add_permissions, remove_permissions, create_key) appends an
\* operation record, whatever the outcome of its external commands.
C15_AlwaysRecorded ==
    /\ pc = "done"
    /\ cmd.name = "service-account"
    /\ CmdLog # <<>>
    /\ effects.last \in {"ok", "fail"}
    => Len(NewOps) >= 1

\* what the commands of setup() reported in this run of deploy
CreateOk ==
    \/ Succeeded("gcloud iam service-accounts describe")
    \/ Succeeded("gcloud iam service-accounts create")
AddCmds == SelectSeq(CmdLog, LAMBDA e : e.what = "gcloud projects add-iam-policy-binding")
AddOk ==
    /\ Len(AddCmds) = Len(DefaultAddRoles)
    /\ \A i \in 1..Len(AddCmds) : AddCmds[i].out = "ok"
SetupRet(r) ==
    \E i \in 1..Len(stepLog) :
        stepLog[i].step = "setup_service_account" /\ stepLog[i].ret = r

\* C16: ServiceAccountManager.setup runs create, then add_permissions with
\* the default roles, and sets service_account_created if and only if both
\* returned success; add_permissions is never attempted after a failed
\* create, and after a failure of either the flag has its previous value and
\* setup returns failure (deploy ends with status 1).
C16_SetupComposes ==
    cmd.name = "deploy" =>
        /\ AddCmds # <<>> => CreateOk
        /\ \A i \in 1..Len(AddCmds) :
              /\ i <= Len(DefaultAddRoles)
              /\ AddCmds[i].arg = DefaultAddRoles[i]
              /\ i < Len(AddCmds) => AddCmds[i].out = "ok"
        /\ SetupRet("ok") =>
              /\ CreateOk
              /\ AddOk
              /\ get_state(manifest, "service_account_created")
        /\ CreateOk /\ AddOk /\ pc \notin {"add_permissions_log", "service_account_flag"}
              => SetupRet("ok")
        /\ SetupRet("running") =>
              get_state(manifest, "service_account_created")
                  = get_state(snap, "service_account_created")
        /\ SetupRet("fail") \/ SetupRet("raise") =>
              /\ ~(CreateOk /\ AddOk)
              /\ get_state(manifest, "service_account_created")
                    = get_state(snap, "service_account_created")
              /\ pc \in {"stop_colima_failed", "done"}
              /\ pc = "done" => result = 1

\* the account was created, a role binding failed, the flag stayed false
C16_Witness ==
    /\ pc = "done"
    /\ cmd.name = "deploy"
    /\ SetupRet("fail")
    /\ Succeeded("gcloud iam service-accounts create")
    /\ Len(AddCmds) = 2
    /\ ~get_state(manifest, "service_account_created")

\* the delete command of this run has exited, with status zero or not
DeleteExited ==
    /\ CmdLog # <<>>
    /\ CmdLog[Len(CmdLog)].what = "gcloud iam service-accounts delete"
    /\ effects.last \in {"ok", "fail"}

\* C17: ServiceAccountManager.delete returns success to its caller whether
\* the delete command exits zero or non-zero, and does not raise for a
\* non-zero exit: "service-account delete" exits 0, and clean goes on to its
\* next phase.
C17_DeleteBestEffort ==
    DeleteExited =>
        /\ cmd.name \in {"service-account", "clean"}
        /\ cmd.name = "service-account" => pc \in {"sa_delete_log", "done"}
        /\ cmd.name = "service-account" /\ pc = "done" => result = 0
        /\ cmd.name = "clean" /\ pc = "done" => result = 0
        /\ cmd.name = "clean" /\ pc # "sa_delete_log" =>
              \E i \in 1..Len(stepLog) :
                  stepLog[i].step = "cleanup_gcp" /\ stepLog[i].ret = "ok"

\* "service-account delete" whose delete command exited non-zero
C17_Witness ==
    /\ pc = "done"
    /\ cmd.name = "service-account"
    /\ cmd.action = "delete"
    /\ DeleteExited
    /\ effects.last = "fail"
    /\ result = 0

(* ---- interrupted runs (InterruptSpec) ---- *)

\* C18: if the process is interrupted at any point during a ledger write,
\* the ledger file on disk is still a complete, parseable ledger holding at
\* least the records that were durable before the write began; it is never
\* left empty, truncated or partially written.
C18_DurableLedger ==
    pc = "done" /\ result = Interrupted /\ manifest.exists =>
        /\ Parseable(manifest)
        /\ Len(manifest.operations) >= Len(m0.operations)
        /\ SubSeq(manifest.operations, 1, Len(m0.operations)) = m0.operations

Has(operation) == Len(NewOpsOf(operation)) > 0

\* C19: if the process is interrupted at any point of a Deploy or Init run,
\* the persisted ledger reflects whole steps only: of each step either all
\* ledger updates (flag, config, operation record) are present or none;
\* deployed = true never persists without config region and the
\* deploy_cloud_run record.
C19_WholeSteps ==
    pc = "done" /\ result = Interrupted /\ FailFast /\ Parseable(manifest) =>
        /\ NewlySet("initialized") =>
              Has("init") /\ "project_name" \in DOMAIN manifest.config
        /\ Has("init") => get_state(manifest, "initialized")
        /\ NewlySet("docker_built") => Has("docker_build")
        /\ Has("docker_build") => get_state(manifest, "docker_built")
        /\ NewlySet("deployed") =>
              Has("deploy_cloud_run") /\ "region" \in DOMAIN manifest.config
        /\ Has("deploy_cloud_run") =>
              get_state(manifest, "deployed") /\ "region" \in DOMAIN manifest.config
        /\ NewlySet("service_account_created") =>
              Has("create_service_account") /\ Has("add_permissions")
        /\ Has("create_service_account") \/ Has("add_permissions") =>
              /\ Has("create_service_account")
              /\ Has("add_permissions")
              /\ get_state(manifest, "service_account_created")
        /\ NewlySet("github_secrets_configured") =>
              Has("create_key") /\ Has("setup_github_secrets")
        /\ Has("create_key") \/ Has("setup_github_secrets") =>
              /\ Has("create_key")
              /\ Has("setup_github_secrets")
              /\ get_state(manifest, "github_secrets_configured")

(* ---- the ledger API (LedgerSpec) ---- *)

\* C20: created_at is set once when the ledger is first created and has the
\* same value in every later state, whatever calls of log_operation,
\* update_state, update_config and reset_manifest follow.
C20_CreatedAtImmutable ==
    api.n > 0 /\ api.prev.exists /\ manifest.exists =>
        manifest.created_at = api.prev.created_at

(* ------------------------- concurrent processes ------------------------ *)
\* ConcurrentSpec: two processes call the mutators of ManifestManager on the
\* same ledger file.  A mutator is _read_manifest, a change of the data read,
\* then _write_manifest, with no lock: the steps of the two processes
\* interleave between a read and its write.

ClientCalls ==
    {[NoCall EXCEPT !.name = "log_operation", !.key = op] : op \in {"init", "cleanup"}}
    \cup {[NoCall EXCEPT !.name = "update_state", !.key = "deployed", !.flag = TRUE]}
    \cup {[NoCall EXCEPT !.name = "update_config", !.key = "region", !.text = "us-east1"]}

\* variant: log_operation stores a list holding the new record only
ApplyReplacing(call, m, t) ==
    CASE call.name = "log_operation" ->
            [m EXCEPT !.operations = <<operation_entry(t, call.key, [type |-> "local"])>>]
      [] call.name = "update_state" -> update_state(m, call.key, call.flag)
      [] call.name = "update_config" -> update_config(m, call.key, call.text)

\* the data a mutator writes, from the data it read
Apply(call, m, t) ==
    CASE call.name = "log_operation" -> log_operation(m, t, call.key, [type |-> "local"])
      [] call.name = "update_state" -> update_state(m, call.key, call.flag)
      [] call.name = "update_config" -> update_config(m, call.key, call.text)

Calling(c) == api.held[c].call # NoCall

\* a mutator begins: manifest = self._read_manifest()
ClientReads(c) ==
    /\ pc = "api"
    /\ ~Calling(c)
    /\ api.n + Cardinality({d \in Clients : Calling(d)}) < MaxCalls
    /\ \E call \in ClientCalls :
          api' = [api EXCEPT !.held[c] = [call |-> call, data |-> manifest],
                             !.overlap = @ \/ \E d \in Clients : Calling(d)]
    /\ UNCHANGED <<manifest, now, fs, pc, cmd, input, effects, stepLog, m0, snap,
                   result, runs, role_i>>

\* the mutator ends: self._write_manifest(manifest), and it returns
ClientWrites(c) ==
    /\ pc = "api"
    /\ Calling(c)
    /\ manifest' = Apply(api.held[c].call, api.held[c].data, now)
    /\ api' = [api EXCEPT !.held[c] = NotCalling, !.n = @ + 1,
                          !.last = api.held[c].call.name, !.prev = manifest,
                          !.logged = Append(@, api.held[c].call)]
    /\ now' = now + 1
    /\ UNCHANGED <<fs, pc, cmd, input, effects, stepLog, m0, snap, result, runs,
                   role_i>>

ConcurrentNext == \E c \in Clients : ClientReads(c) \/ ClientWrites(c)

ConcurrentSpec == LedgerInit /\ [][ConcurrentNext]_vars

(* ------------------- C21: constructing ManifestManager ------------------ *)

\* the step of main that constructs ManifestManager and enters the handler
Constructs == pc = "idle" /\ pc' # "idle"

\* C21: constructing ManifestManager on an absent ledger file creates it in
\* the canonical empty shape, so that the handler starts on an existing
\* ledger; constructing it on an existing file leaves the file as it was.
C21_Construction ==
    /\ [](pc \notin {"idle", "api"} => m0.exists)
    /\ [][Constructs =>
            /\ m0' = manifest'
            /\ IF manifest.exists
               THEN manifest' = manifest
               ELSE Canonical(manifest') /\ manifest'.created_at = now]_vars

\* a handler has just been entered on a ledger that earlier runs had filled
C21_Witness ==
    /\ cmd.name # "none"
    /\ pc = Entry(cmd)
    /\ stepLog = <<>>
    /\ manifest = m0
    /\ m0.operations # <<>>
    /\ \E k \in Flags : m0.state[k]

(* ------------------- C22: the ledger file keeps existing ---------------- *)

\* C22: a process that found or created the ledger file leaves it in place
\* when it ends, a confirmed clean that deletes and re-clones the local
\* working tree included.
C22_LedgerStays ==
    (pc = "done" /\ m0.exists /\ fs.tree # "damaged") => manifest.exists

(* --------------------------- C23: exit status --------------------------- *)

\* main has printed its KeyboardInterrupt line as the last thing of the run
WasCancelled ==
    /\ effects.log # <<>>
    /\ effects.log[Len(effects.log)].kind = "print"
    /\ effects.log[Len(effects.log)].what = Cancelled

\* the workflow of the command ran to its end and reported success, read from
\* what the run has left behind
WorkflowReported ==
    CASE cmd.name = "init" -> StepOk("setup_backend") /\ Has("init")
      [] cmd.name = "deploy" ->
            /\ StepOk("setup_github_secrets")
            /\ CmdLog[Len(CmdLog)].what = "colima stop"
            /\ CmdLog[Len(CmdLog)].out # "notfound"
      [] cmd.name = "clean" ->
            /\ stepLog # <<>>
            /\ LastStep.step \in {"cleanup_local", "reset_manifest"}
            /\ LastStep.ret \in {"ok", "fail"}
      [] cmd.name = "service-account" ->
            Has(CASE cmd.action = "create" -> "create_service_account"
                  [] cmd.action = "delete" -> "delete_service_account"
                  [] cmd.action = "add-permissions" -> "add_permissions"
                  [] cmd.action = "remove-permissions" -> "remove_permissions")
      [] cmd.name = "config" -> cmd.action = "get" => cmd.key \in DOMAIN m0.config
      [] cmd.name \in {"status", "history"} -> TRUE

\* C23: the exit status of every command is 0 exactly when the workflow of
\* its handler reported success, 130 exactly when the operator interrupted
\* the handler, and 1 for every other outcome (a failed workflow, a declined
\* confirmation, an exception such as a missing executable).
C23_ExitStatus ==
    pc = "done" =>
        /\ result \in {0, 1, Interrupted}
        /\ result = Interrupted <=> WasCancelled
        /\ ~WasCancelled => (result = 0 <=> WorkflowReported)

\* a clean of a deployed project, interrupted after it had issued external
\* commands
C23_Witness ==
    /\ pc = "done"
    /\ cmd.name = "clean"
    /\ result = Interrupted
    /\ WasCancelled
    /\ CmdLog # <<>>
    /\ get_state(manifest, "deployed")

(* ------------------------ C24: config set and get ----------------------- *)

LastEffect == effects.log[Len(effects.log)]

\* config --get K has printed the value v as its only output
Output(v) ==
    /\ Len(effects.log) = 1
    /\ LastEffect.kind = "print"
    /\ LastEffect.what = v

C25_UnreadableFails ==
    /\ [](/\ Unreadable(manifest)
          /\ pc # "idle" => manifest = m0
          /\ pc = "done" => result = 1)
    /\ [][/\ manifest' = manifest
          /\ pc \in LedgerAccessPoints => pc' = "done" /\ effects' = effects]_vars

\* service-account delete on an unreadable ledger: the delete command has
\* run, then log_operation has failed
C25_Witness ==
    /\ pc = "done"
    /\ Unreadable(manifest)
    /\ cmd.name = "service-account"
    /\ cmd.action = "delete"
    /\ Issued("gcloud iam service-accounts delete")
    /\ result = 1

(* ----------------------- C26: a successful deploy ----------------------- *)

DeployCmds == SelectSeq(CmdLog, LAMBDA e : e.what = "gcloud run deploy")

\* C26: whenever deploy returns success the ledger has deployed,
\* docker_built, service_account_created and github_secrets_configured true,
\* and config region is the region that was passed to the Cloud Run deploy
\* command: the requested one, or europe-west4 when none was requested.
C26_DeploySuccess ==
    pc = "done" /\ cmd.name = "deploy" /\ result = 0 =>
        /\ \A f \in Flags \ {"initialized"} : get_state(manifest, f)
        /\ Len(DeployCmds) = 1
        /\ DeployCmds[1].out = "ok"
        /\ get_config(manifest, "region", "<absent>") = DeployCmds[1].arg
        /\ DeployCmds[1].arg = IF cmd.region = "" THEN "europe-west4" ELSE cmd.region

\* a deploy without --region has succeeded on a ledger whose config region
\* was us-east1
C26_Witness ==
    /\ pc = "done"
    /\ cmd.name = "deploy"
    /\ cmd.region = ""
    /\ result = 0
    /\ get_config(m0, "region", "<absent>") = "us-east1"
    /\ get_config(manifest, "region", "<absent>") = "europe-west4"

(* ----------------------------- C27: initialize -------------------------- *)

AllInitStepsOk == \A i \in 1..Len(InitSteps) : StepOk(InitSteps[i])

\* C27: initialize returns success if and only if its four steps (env file,
\* project files, front end, backend) all succeeded; exactly then it sets
\* initialized, records config project_name and appends one init record, and
\* when a step fails (or the operator declines) the ledger is what it was
\* before initialize was called.
C27_Initialize ==
    pc = "done" /\ cmd.name = "init" =>
        /\ result = 0 <=> AllInitStepsOk
        /\ result = 0 =>
              /\ manifest.state = MapSet(m0.state, "initialized", TRUE)
              /\ manifest.config = MapSet(m0.config, "project_name", project_name)
              /\ Len(NewOps) = 1
              /\ NewOps[1].operation = "init"
              /\ manifest.created_at = m0.created_at
        /\ result # 0 => manifest = m0

\* an init that failed at the backend step, on a ledger that already held
\* records and config
C27_Witness ==
    /\ pc = "done"
    /\ cmd.name = "init"
    /\ result = 1
    /\ StepOk("setup_frontend")
    /\ LastStep.step = "setup_backend"
    /\ LastStep.ret = "fail"
    /\ m0.operations # <<>>
    /\ manifest = m0

(* ---------------- C28: records after a failed deploy step --------------- *)

\* C28: after a deploy that failed at a step, the operations list holds
\* records of completed steps only: the failed step has appended no record
\* (the list is what it was when that step began).
C28_NoRecordOfFailedStep ==
    pc = "done" /\ cmd.name = "deploy" /\ stepLog # <<>> /\ LastStep.ret = "fail" =>
        manifest.operations = snap.operations

(* -------------------- C29: one record per workflow step ----------------- *)

\* C29: a fully successful deploy on a fresh ledger appends exactly five
\* records, one for each of its five steps, and a successful init appends
\* exactly one.
C29_OneRecordPerStep ==
    pc = "done" /\ result = 0 /\ Canonical(m0) =>
        /\ cmd.name = "deploy" => Len(NewOps) = Len(DeploySteps)
        /\ cmd.name = "init" => Len(NewOps) = 1

(* -------------------- C30: the GCP phase of clean ----------------------- *)

RunDelete == "gcloud run services delete"
AccountDelete == "gcloud iam service-accounts delete"

\* the GCP phase is past its first decision
PastServiceDecision ==
    /\ stepLog # <<>>
    /\ LastStep.step = "cleanup_gcp"
    /\ pc \in {"gcp_service_account", "sa_delete", "sa_delete_log"}

\* C30: during clean the Cloud Run service delete command is issued if and
\* only if the deployed flag is true, and the service-account delete command
\* if and only if service_account_created is true, each decided on its own
\* flag; with both flags false the GCP phase issues no external command.
\* (clean changes no flag until the phase has returned: the flags are those
\* of m0.)
C30_GcpByFlags ==
    cmd.name = "clean" =>
        /\ ~StepOk("cleanup_gcp") => manifest.state = m0.state
        /\ Issued(RunDelete) => get_state(m0, "deployed")
        /\ Issued(AccountDelete) => get_state(m0, "service_account_created")
        /\ PastServiceDecision \/ StepOk("cleanup_gcp") =>
              (Issued(RunDelete) <=> get_state(m0, "deployed"))
        /\ StepOk("cleanup_gcp") =>
              (Issued(AccountDelete) <=> get_state(m0, "service_account_created"))

\* the GCP phase has returned on a ledger with deployed true and
\* service_account_created false: the service was deleted, the account not
C30_Witness ==
    /\ cmd.name = "clean"
    /\ StepOk("cleanup_gcp")
    /\ get_state(m0, "deployed")
    /\ ~get_state(m0, "service_account_created")
    /\ Issued(RunDelete)
    /\ ~Issued(AccountDelete)

(* ------------------ C31: the tree after a local cleanup ----------------- *)

\* C31: whenever clean has deleted the local working tree and cleanup_local
\* has reported success, a fresh copy of the template is at the project path.
C31_TreeReplaced ==
    /\ pc = "done"
    /\ cmd.name = "clean"
    /\ stepLog # <<>>
    /\ LastStep.step = "cleanup_local"
    /\ LastStep.ret = "ok"
    => fs = FreshTree("template")

(* -------------------------- C32: lost updates --------------------------- *)

\* what the calls that have returned ask for, taken one after the other:
\* the records to append, the flags and the config values to set
CallsOf(name) == SelectSeq(api.logged, LAMBDA call : call.name = name)
Asked ==
    [operations |-> [i \in 1..Len(CallsOf("log_operation")) |->
                        CallsOf("log_operation")[i].key],
     state |-> [k \in Flags |->
                  \E i \in 1..Len(api.logged) :
                      /\ api.logged[i].name = "update_state"
                      /\ api.logged[i].key = k
                      /\ api.logged[i].flag],
     config |-> [k \in {call.key : call \in {api.logged[i] : i \in
                          {n \in 1..Len(api.logged) : api.logged[n].name = "update_config"}}} |->
                   LET sets == SelectSeq(CallsOf("update_config"), LAMBDA call : call.key = k)
                   IN sets[Len(sets)].text]]

\* a ledger without its timestamps
Content(m) ==
    [operations |-> [i \in 1..Len(m.operations) |-> m.operations[i].operation],
     state |-> m.state, config |-> m.config]

\* C32: the mutators are unlocked read-modify-write cycles.  As long as no
\* call has begun while another was between its read and its write (one
\* process, or processes taking turns), the ledger holds the effect of every
\* call that has returned; when two calls overlap, both return normally and
\* the effect of one of them can be missing (C32_Witness).
C32_SerialLosesNothing ==
    /\ Len(manifest.operations) <= Len(api.logged)
    /\ ~api.overlap => Content(manifest) = Asked

\* both processes have returned from log_operation and the ledger holds the
\* record of one of them only
C32_Witness ==
    /\ api.n = 2
    /\ \A c \in Clients : ~Calling(c)
    /\ \A i \in 1..2 : api.logged[i].name = "log_operation"
    /\ api.logged[1].key # api.logged[2].key
    /\ Len(manifest.operations) = 1

(* ----------------------- C33: colima is stopped ------------------------- *)

ColimaStops == SelectSeq(CmdLog, LAMBDA e : e.what = "colima stop")

\* deploy has returned to cmd_deploy (no exception has left it)
DeployReturned ==
    /\ pc = "done"
    /\ cmd.name = "deploy"
    /\ effects.last # "notfound"
    /\ stepLog # <<>> => LastStep.ret # "raise"

\* C33: on every path on which deploy returns, stop_colima has been called
\* exactly once if start_colima had succeeded (a failure of build, push,
\* Cloud Run deploy, service-account setup or secrets setup, and full
\* success), and never if start_colima failed or deploy failed before it.
C33_ColimaStoppedOnce ==
    DeployReturned =>
        Len(ColimaStops) = IF Succeeded("colima start") THEN 1 ELSE 0

\* a deploy that returned failure from the service-account step, colima
\* started and stopped
C33_Witness ==
    /\ DeployReturned
    /\ result = 1
    /\ stepLog # <<>>
    /\ LastStep.step = "setup_service_account"
    /\ LastStep.ret = "fail"
    /\ Succeeded("colima start")
    /\ Len(ColimaStops) = 1

(* ------------------------ C34: flags are monotone ----------------------- *)

ResetRan == \E i \in 1..Len(stepLog) : stepLog[i].step = "reset_manifest"

\* C34: across init, deploy, the service-account and config commands and the
\* phases of clean, a flag that is true stays true unless reset_manifest
\* runs: every flag the ledger held as true when a command started is still
\* held as true, at every point of a run in which reset_manifest has not run.
C34_FlagsMonotone ==
    pc \notin {"idle", "api"} /\ ~ResetRan =>
        \A f \in Flags : get_state(m0, f) => manifest.exists /\ get_state(manifest, f)

(* ------------------- C35: flags and what backs them --------------------- *)

HasRecord(m, operation) ==
    \E i \in 1..Len(m.operations) : m.operations[i].operation = operation

\* no workflow step is in the middle of its execution: no process runs, or
\* the running one is between two steps (the three ledger writes that end
\* initialize belong together like those of a step)
BetweenSteps ==
    \/ pc \in {"idle", "done"}
    \/ /\ ~Running(stepLog)
       /\ pc \notin {"initialized_flag", "project_name_config", "init_log"}

\* C35: at every point where no workflow step is mid-execution, deployed
\* true implies a config region and a deploy_cloud_run record, and
\* initialized true implies a config project_name and an init record.
C35_FlagsBacked ==
    BetweenSteps /\ Parseable(manifest) =>
        /\ get_state(manifest, "deployed") =>
              /\ "region" \in DOMAIN manifest.config
              /\ HasRecord(manifest, "deploy_cloud_run")
        /\ get_state(manifest, "initialized") =>
              /\ "project_name" \in DOMAIN manifest.config
              /\ HasRecord(manifest, "init")

\* between two steps: a re-deploy has failed at its Cloud Run step, on a
\* ledger that an earlier deploy had filled
C35_Witness ==
    /\ pc = "stop_colima_failed"
    /\ LastStep.step = "deploy_to_cloud_run"
    /\ get_state(manifest, "deployed")
    /\ HasRecord(manifest, "deploy_cloud_run")
    /\ get_state(manifest, "docker_built")

(* ----------------------- C36: what clean returns ------------------------ *)

\* clean was confirmed and ran to its end: its last phase has returned
CleanRanToEnd ==
    /\ pc = "done"
    /\ cmd.name = "clean"
    /\ stepLog # <<>>
    /\ LastStep.step \in {"cleanup_local", "reset_manifest"}
    /\ LastStep.ret \in {"ok", "fail"}

\* C36: a confirmed clean that runs to its end exits 0 whatever its external
\* commands returned and whether or not the operator agreed to the local
\* deletion; clean returns failure only when the confirmation was not given
\* (status 1 otherwise comes from an exception, not from a return of clean).
C36_CleanSucceeds ==
    pc = "done" /\ cmd.name = "clean" =>
        /\ CleanRanToEnd => result = 0
        /\ result = 1 => stepLog = <<>> \/ LastStep.ret = "raise"
        /\ stepLog = <<>> => result = 1 /\ manifest = m0 /\ CmdLog = <<>>

\* a clean of a deployed project ended with status 0 although no command
\* reported success and the operator declined the local deletion
C36_Witness ==
    /\ CleanRanToEnd
    /\ result = 0
    /\ LastStep.step = "cleanup_local"
    /\ LastStep.ret = "fail"
    /\ get_state(m0, "deployed")
    /\ Len(CmdLog) > 3
    /\ \A i \in 1..Len(CmdLog) : CmdLog[i].out # "ok"
    /\ effects.last = "fail"

(* ------------------- C37: the role loops stop at a failure -------------- *)

RemoveCmds ==
    SelectSeq(CmdLog, LAMBDA e : e.what = "gcloud projects remove-iam-policy-binding")

\* the commands cmds of a role loop over roles, and its record: the roles are
\* taken in order, only the last command issued can have failed, and the
\* record exists only after every role succeeded, listing them all
LoopStops(cmds, roles, operation) ==
    /\ Len(cmds) <= Len(roles)
    /\ \A i \in 1..Len(cmds) : cmds[i].arg = roles[i]
    /\ \A i \in 1..Len(cmds) : i < Len(cmds) => cmds[i].out = "ok"
    /\ Has(operation) =>
          /\ Len(cmds) = Len(roles)
          /\ \A i \in 1..Len(cmds) : cmds[i].out = "ok"
          /\ Len(NewOpsOf(operation)) = 1
          /\ NewOpsOf(operation)[1].details.roles = roles
    /\ pc = "done" /\ cmd.name = "service-account" =>
          /\ result = 0 <=> Has(operation)
          /\ result = 0 <=> (Len(cmds) = Len(roles) /\ cmds[Len(cmds)].out = "ok")

\* C37: add_permissions and remove_permissions take their roles in order;
\* at the first role whose command fails the loop stops, no later role is
\* attempted, no record is appended and the call fails, and nothing undoes
\* the roles already granted (revoked); the record, listing all roles, is
\* appended only when every role succeeded.
C37_RoleLoop ==
    /\ cmd.name = "deploy" \/ (cmd.name = "service-account" /\ cmd.action = "add-permissions")
          => LoopStops(AddCmds, RolesOr(DefaultAddRoles), "add_permissions") /\ RemoveCmds = <<>>
    /\ cmd.name = "service-account" /\ cmd.action = "remove-permissions" /\ RemoveCmds # <<>>
          => LoopStops(RemoveCmds, RolesOr(DefaultRemoveRoles), "remove_permissions")
             /\ AddCmds = <<>>

\* remove-permissions with the default roles failed at its third role
C37_Witness ==
    /\ pc = "done"
    /\ cmd.name = "service-account"
    /\ cmd.action = "remove-permissions"
    /\ cmd.roles = <<>>
    /\ Len(RemoveCmds) = 3
    /\ RemoveCmds[3].out = "fail"
    /\ result = 1
    /\ ~Has("remove_permissions")

(* -------------------- C38: what delete leaves alone --------------------- *)

DeleteRecords == NewOpsOf("delete_service_account")

\* the run has not reset the ledger, and the ledger file is in place
LedgerKept == manifest.exists /\ ~StepOk("reset_manifest")

OnlyKey(f, g, key) ==
    /\ key \in DOMAIN g
    /\ DOMAIN g = DOMAIN f \cup {key}
    /\ \A k \in DOMAIN f \ {key} : g[k] = f[k]

\* C39: each ledger call touches only its own section: update_state changes
\* state at one key (adding it if unknown) and nothing else, update_config
\* changes config at one key and nothing else, log_operation changes only
\* operations, and the readers change nothing.
C39_OwnSection ==
    LET old == api.prev IN
    /\ api.last = "update_state" =>
          /\ \E k \in ApiStateKeys : OnlyKey(old.state, manifest.state, k)
          /\ manifest.config = old.config
          /\ manifest.operations = old.operations
          /\ manifest.created_at = old.created_at
    /\ api.last = "update_config" =>
          /\ \E k \in ApiConfigKeys : OnlyKey(old.config, manifest.config, k)
          /\ manifest.state = old.state
          /\ manifest.operations = old.operations
          /\ manifest.created_at = old.created_at
    /\ api.last = "log_operation" =>
          /\ manifest.state = old.state
          /\ manifest.config = old.config
          /\ manifest.created_at = old.created_at
          /\ Len(manifest.operations) = Len(old.operations) + 1
    /\ api.last \in {"get_state", "get_config", "get_all"} => manifest = old

\* update_state has added an unknown key to a ledger that held records,
\* a config value and a true flag
C39_Witness ==
    /\ api.last = "update_state"
    /\ "custom" \notin DOMAIN api.prev.state
    /\ "custom" \in DOMAIN manifest.state
    /\ api.prev.operations # <<>>
    /\ DOMAIN api.prev.config # {}
    /\ \E k \in Flags : manifest.state[k]


====
